---------------------------- MODULE Spec2Model ----------------------------
(***************************************************************************)
(* A model of the Nhotyp interpreter (src/src/main.rs): the line parser,   *)
(* the prefix-expression evaluator, the statement executor, whole-file     *)
(* execution and the interactive REPL driver.                              *)
(*                                                                         *)
(* Text is modelled as TLA+ strings, read one character at a time with     *)
(* SubSeq.  The interpreter's integers are i128; TLC's integers are 32 bit *)
(* wide, so an integer is modelled as a sign and a magnitude, the          *)
(* magnitude a little-endian sequence of bytes without leading zero bytes. *)
(***************************************************************************)
EXTENDS Integers, Sequences, FiniteSets, TLC

\* the functions of the program are called through Call, defined after the
\* last of them
RECURSIVE Call(_, _)

(***************************************************************************)
(* Characters and strings                                                  *)
(***************************************************************************)
Char(s, i) == SubSeq(s, i, i)

Digits == <<"0", "1", "2", "3", "4", "5", "6", "7", "8", "9">>

IsDigit(c) == \E d \in 1..10 : Digits[d] = c

DigitVal(c) == (CHOOSE d \in 1..10 : Digits[d] = c) - 1

IsLower(c) ==
    c \in {"a", "b", "c", "d", "e", "f", "g", "h", "i", "j", "k", "l", "m",
           "n", "o", "p", "q", "r", "s", "t", "u", "v", "w", "x", "y", "z"}

\* char::is_whitespace, for the characters the model's texts contain
IsWhitespace(c) == c \in {" ", "\n", "\t", "\r"}

RECURSIVE TrimStart(_)
TrimStart(s) ==
    IF Len(s) > 0 /\ IsWhitespace(Char(s, 1))
    THEN TrimStart(SubSeq(s, 2, Len(s)))
    ELSE s

RECURSIVE TrimEnd(_)
TrimEnd(s) ==
    IF Len(s) > 0 /\ IsWhitespace(Char(s, Len(s)))
    THEN TrimEnd(SubSeq(s, 1, Len(s) - 1))
    ELSE s

\* str::trim
Trim(s) == TrimEnd(TrimStart(s))

\* the index of the first occurrence of character c in s at or after i, or
\* Len(s) + 1 when there is none
RECURSIVE FindChar(_, _, _)
FindChar(s, c, i) ==
    IF i > Len(s) THEN Len(s) + 1
    ELSE IF Char(s, i) = c THEN i
    ELSE FindChar(s, c, i + 1)

\* str::split(c): the pieces of s between the occurrences of c
RECURSIVE Split(_, _)
Split(s, c) ==
    LET k == FindChar(s, c, 1)
    IN  IF k > Len(s) THEN <<s>>
        ELSE <<SubSeq(s, 1, k - 1)>> \o Split(SubSeq(s, k + 1, Len(s)), c)

RECURSIVE SelectNonEmpty(_)
SelectNonEmpty(ws) ==
    IF ws = <<>> THEN <<>>
    ELSE IF Len(Head(ws)) > 0 THEN <<Head(ws)>> \o SelectNonEmpty(Tail(ws))
    ELSE SelectNonEmpty(Tail(ws))

(***************************************************************************)
(* Natural numbers as little-endian byte sequences (no leading zero byte;  *)
(* zero is the empty sequence)                                             *)
(***************************************************************************)
RECURSIVE NatNorm(_)
NatNorm(m) ==
    IF m = <<>> THEN <<>>
    ELSE IF m[Len(m)] = 0 THEN NatNorm(SubSeq(m, 1, Len(m) - 1))
    ELSE m

Limb(m, i) == IF i <= Len(m) THEN m[i] ELSE 0

Rest(m) == IF m = <<>> THEN <<>> ELSE Tail(m)

RECURSIVE NatAddC(_, _, _)
NatAddC(a, b, c) ==
    IF a = <<>> /\ b = <<>> THEN (IF c = 0 THEN <<>> ELSE <<c>>)
    ELSE LET x == Limb(a, 1) + Limb(b, 1) + c
         IN  <<x % 256>> \o NatAddC(Rest(a), Rest(b), x \div 256)

NatAdd(a, b) == NatAddC(a, b, 0)

\* a - b - c, for a >= b + c
RECURSIVE NatSubB(_, _, _)
NatSubB(a, b, c) ==
    IF a = <<>> THEN <<>>
    ELSE LET x == a[1] - Limb(b, 1) - c
         IN  <<x % 256>> \o NatSubB(Tail(a), Rest(b), IF x < 0 THEN 1 ELSE 0)

NatSub(a, b) == NatNorm(NatSubB(a, b, 0))

\* -1, 0, 1 as a < b, a = b, a > b
RECURSIVE NatCmpFrom(_, _, _)
NatCmpFrom(a, b, i) ==
    IF i = 0 THEN 0
    ELSE IF a[i] < b[i] THEN -1
    ELSE IF a[i] > b[i] THEN 1
    ELSE NatCmpFrom(a, b, i - 1)

NatCmp(a, b) ==
    IF Len(a) < Len(b) THEN -1
    ELSE IF Len(a) > Len(b) THEN 1
    ELSE NatCmpFrom(a, b, Len(a))

\* a * d + c for a byte d
RECURSIVE NatMulSmallC(_, _, _)
NatMulSmallC(a, d, c) ==
    IF a = <<>> THEN (IF c = 0 THEN <<>> ELSE <<c % 256>> \o NatMulSmallC(<<>>, d, c \div 256))
    ELSE LET x == a[1] * d + c
         IN  <<x % 256>> \o NatMulSmallC(Tail(a), d, x \div 256)

NatMulSmall(a, d) == NatNorm(NatMulSmallC(a, d, 0))

RECURSIVE NatMul(_, _)
NatMul(a, b) ==
    IF a = <<>> \/ b = <<>> THEN <<>>
    ELSE LET hi == NatMul(a, Tail(b))
         IN  NatAdd(NatMulSmall(a, b[1]),
                    IF hi = <<>> THEN <<>> ELSE <<0>> \o hi)

\* binary long division by b # 0, one bit of the dividend at a time from the
\* top; st is the pair <<quotient, remainder>> so far.  NatDivBit takes in
\* bit k of byte d and the bits below it, NatDivBytes the bytes i..1 of a.
RECURSIVE NatDivBit(_, _, _, _)
NatDivBit(d, b, k, st) ==
    LET r2  == NatMulSmallC(st[2], 2, (d \div (2 ^ k)) % 2)
        nst == IF NatCmp(r2, b) >= 0
               THEN <<NatMulSmallC(st[1], 2, 1), NatSub(r2, b)>>
               ELSE <<NatMulSmallC(st[1], 2, 0), r2>>
    IN  IF k = 0 \/ nst = <<>> THEN nst ELSE NatDivBit(d, b, k - 1, nst)

RECURSIVE NatDivBytes(_, _, _, _)
NatDivBytes(a, b, i, st) ==
    IF i = 0 \/ st = <<>> THEN st
    ELSE NatDivBytes(a, b, i - 1, NatDivBit(a[i], b, 7, st))

\* <<a div b, a mod b>>
NatDivMod(a, b) == NatDivBytes(a, b, Len(a), <<(<<>>), (<<>>)>>)

\* 2^(8 * n)
NatPow256(n) == [i \in 1..(n + 1) |-> IF i = n + 1 THEN 1 ELSE 0]

\* a mod 2^(8 * n)
NatLowBytes(a, n) == NatNorm(SubSeq(a, 1, IF Len(a) < n THEN Len(a) ELSE n))

\* a small natural number of TLC as a byte sequence
RECURSIVE NatOf(_)
NatOf(n) == IF n = 0 THEN <<>> ELSE <<n % 256>> \o NatOf(n \div 256)

(***************************************************************************)
(* Integers: [neg, mag], zero never negative                               *)
(***************************************************************************)
MkInt(neg, mag) ==
    LET m == NatNorm(mag) IN [neg |-> neg /\ m # <<>>, mag |-> m]

IntOf(n) == IF n < 0 THEN MkInt(TRUE, NatOf(-n)) ELSE MkInt(FALSE, NatOf(n))

IntZero == IntOf(0)

IntNeg(x) == MkInt(~x.neg, x.mag)

IntAbs(x) == MkInt(FALSE, x.mag)

IntIsPos(x) == ~x.neg /\ x.mag # <<>>

IntAdd(x, y) ==
    IF x.neg = y.neg THEN MkInt(x.neg, NatAdd(x.mag, y.mag))
    ELSE IF NatCmp(x.mag, y.mag) >= 0 THEN MkInt(x.neg, NatSub(x.mag, y.mag))
    ELSE MkInt(y.neg, NatSub(y.mag, x.mag))

IntSub(x, y) == IntAdd(x, IntNeg(y))

IntMul(x, y) == MkInt(x.neg # y.neg, NatMul(x.mag, y.mag))

\* -1, 0, 1 as x < y, x = y, x > y
IntCmp(x, y) ==
    IF x.neg /\ ~y.neg THEN -1
    ELSE IF ~x.neg /\ y.neg THEN 1
    ELSE IF x.neg THEN NatCmp(y.mag, x.mag)
    ELSE NatCmp(x.mag, y.mag)

\* division truncated towards zero and its remainder (the sign of the
\* dividend), y # 0: Rust's / and % on integers
IntTruncDiv(x, y) == MkInt(x.neg # y.neg, Call("NatDivMod", <<x.mag, y.mag>>)[1])

IntTruncRem(x, y) == MkInt(x.neg, Call("NatDivMod", <<x.mag, y.mag>>)[2])

(***************************************************************************)
(* Fixed-width integers                                                    *)
(***************************************************************************)
\* x mod 2^(8 * n), in 0 .. 2^(8 * n) - 1, as a byte sequence
ModPow256(x, n) ==
    LET low == NatLowBytes(x.mag, n)
    IN  IF x.neg /\ low # <<>> THEN NatSub(NatPow256(n), low) ELSE low

\* the two's complement value of the low n bytes of x: `x as iN`
WrapBytes(x, n) ==
    LET u == ModPow256(x, n)
    IN  IF Len(u) = n /\ u[n] >= 128
        THEN MkInt(TRUE, NatSub(NatPow256(n), u))
        ELSE MkInt(FALSE, u)

\* whether x is a value of the signed integer type of n bytes
InBytes(x, n) == WrapBytes(x, n) = x

\* the result of an i128 operation whose exact result is x: the value a
\* build without overflow checks computes, and whether the operation
\* overflows (a build with overflow checks panics there)
I128(x) == [val |-> WrapBytes(x, 16), ovf |-> ~InBytes(x, 16)]

\* str::parse::<i128>: an optional sign, then one or more decimal digits,
\* the value within the range of i128
RECURSIVE AllDigits(_, _)
AllDigits(s, i) ==
    IF i > Len(s) THEN TRUE
    ELSE IsDigit(Char(s, i)) /\ AllDigits(s, i + 1)

RECURSIVE NatOfDigits(_, _, _)
NatOfDigits(s, i, acc) ==
    IF i > Len(s) THEN acc
    ELSE NatOfDigits(s, i + 1, NatMulSmallC(acc, 10, DigitVal(Char(s, i))))

parse_i128(s) ==
    LET signed == Len(s) > 0 /\ Char(s, 1) \in {"+", "-"}
        body   == IF signed THEN SubSeq(s, 2, Len(s)) ELSE s
        val    == MkInt(signed /\ Char(s, 1) = "-", NatOfDigits(body, 1, <<>>))
    IN  IF Len(body) = 0 \/ ~AllDigits(body, 1) THEN [ok |-> FALSE]
        ELSE IF ~InBytes(val, 16) THEN [ok |-> FALSE]
        ELSE [ok |-> TRUE, val |-> val]

\* bitwise and of two bytes, and of two natural numbers
RECURSIVE ByteAnd(_, _, _)
ByteAnd(x, y, k) ==
    IF k = 0 THEN 0
    ELSE (x % 2) * (y % 2) + 2 * ByteAnd(x \div 2, y \div 2, k - 1)

RECURSIVE NatAndBytes(_, _)
NatAndBytes(a, b) ==
    IF a = <<>> \/ b = <<>> THEN <<>>
    ELSE <<ByteAnd(a[1], b[1], 8)>> \o NatAndBytes(Tail(a), Tail(b))

NatAnd(a, b) == NatNorm(NatAndBytes(a, b))

(***************************************************************************)
(* Variables: the interpreter's values                                     *)
(***************************************************************************)
\* const VARIABLE_LIMIT: i128 = 0x1_0000_0000_0000
VARIABLE_LIMIT == MkInt(FALSE, NatPow256(6))

Variable_from_unmasked(val) == val

\* Variable::from: a positive value keeps its low 48 bits, any other value
\* is kept as it is
Variable_from(val) ==
    IF IntIsPos(val)
    THEN MkInt(FALSE, NatAnd(val.mag, IntSub(VARIABLE_LIMIT, IntOf(1)).mag))
    ELSE val

\* The arithmetic of Variables.  Each yields [val, ovf]: val is the result
\* of a build without overflow checks (i128 arithmetic wraps), ovf says
\* whether some i128 operation on the way overflows, where a build with
\* overflow checks panics.
Variable_add(self, other) ==
    LET r == Call("I128", <<IntAdd(self, other)>>)
    IN  [val |-> Variable_from(r.val), ovf |-> r.ovf]

Variable_sub(self, other) ==
    LET r == Call("I128", <<IntSub(self, other)>>)
    IN  [val |-> Variable_from(r.val), ovf |-> r.ovf]

Variable_mul(self, other) ==
    LET r == Call("I128", <<IntMul(self, other)>>)
    IN  [val |-> Variable_from(r.val), ovf |-> r.ovf]

\* Variable_rem without the sign adjustment: the truncated remainder for every dividend
Variable_rem_truncated(self, other) ==
    LET b == Call("I128", <<IntAbs(other)>>)
    IN  IF b.val = IntZero THEN [val |-> Variable_from(IntZero), ovf |-> b.ovf]
        ELSE [val |-> Variable_from(Call("IntTruncRem", <<self, b.val>>)), ovf |-> b.ovf]

Variable_rem(self, other) ==
    LET a == self
        b == Call("I128", <<IntAbs(other)>>)
    IN  IF b.val = IntZero THEN [val |-> Variable_from(IntZero), ovf |-> b.ovf]
        ELSE IF IntIsPos(a)
        THEN [val |-> Variable_from(Call("IntTruncRem", <<a, b.val>>)), ovf |-> b.ovf]
        ELSE LET na == Call("I128", <<IntNeg(a)>>)
                 d  == Call("I128", <<IntSub(b.val, Call("IntTruncRem", <<na.val, b.val>>))>>)
             IN  [val |-> Variable_from(Call("IntTruncRem", <<d.val, b.val>>)),
                  ovf |-> b.ovf \/ na.ovf \/ d.ovf]

Variable_div(self, other) ==
    LET b == Call("I128", <<IntAbs(other)>>)
    IN  IF b.val = IntZero THEN [val |-> Variable_from(IntZero), ovf |-> b.ovf]
        ELSE LET r == Call("Variable_rem", <<self, other>>)
                 d == Call("Variable_sub", <<self, r.val>>)
             IN  [val |-> Variable_from(Call("IntTruncDiv", <<d.val, b.val>>)),
                  ovf |-> b.ovf \/ r.ovf \/ d.ovf]

(***************************************************************************)
(* Errors, tokens                                                          *)
(***************************************************************************)
\* enum Error: a kind, and for all kinds but UnclosedBlock a line; some
\* kinds carry a value
Err1(kind, line) == [kind |-> kind, line |-> line]

Err2(kind, line, value) == [kind |-> kind, line |-> line, value |-> value]

UnclosedBlock == [kind |-> "UnclosedBlock"]

\* Error::line
Error_line(err) == IF err.kind = "UnclosedBlock" THEN 0 ELSE err.line

\* the closure of Token::from: whether character c is not allowed
IllegalTokenChar(c, allow_const) ==
    IF IsDigit(c) THEN ~allow_const
    ELSE IF c \in {"<", "=", ">"} THEN ~allow_const
    ELSE IF c \in {"+", "-", "*", "%", "/"} THEN ~allow_const
    ELSE IF IsLower(c) THEN FALSE
    ELSE IF c = "_" THEN FALSE
    ELSE TRUE

\* the index of the first character of s at or after i that is not
\* allowed, or 0
RECURSIVE FirstIllegal(_, _, _)
FirstIllegal(s, i, allow_const) ==
    IF i > Len(s) THEN 0
    ELSE IF IllegalTokenChar(Char(s, i), allow_const) THEN i
    ELSE FirstIllegal(s, i + 1, allow_const)

\* Token::from(s, ptr, allow_const)
Token_from(s, ptr, allow_const) ==
    IF Len(s) > 63
    THEN [ok |-> FALSE, err |-> Err2("TokenTooLong", ptr, Len(s))]
    ELSE LET k == FirstIllegal(s, 1, allow_const)
         IN  IF k = 0 THEN [ok |-> TRUE, token |-> s]
             ELSE [ok |-> FALSE, err |-> Err2("IllegalChar", ptr, Char(s, k))]

Token_from_any(ptr, s) == Call("Token_from", <<s, ptr, TRUE>>)

Token_from_var(ptr, s) == Call("Token_from", <<s, ptr, FALSE>>)

is_reserved_kw(token) ==
    token \in {"and", "or", "xor", "not", "scan", "let", "if", "then",
               "while", "do", "function", "as", "return", "end", "print"}

(***************************************************************************)
(* The parser.  A parse works on the line array `lines` and the cursor     *)
(* `ptr` of struct State; ptr counts from 0 as in the source, so the line  *)
(* at cursor ptr is lines[ptr + 1].  A parse function yields               *)
(* [ok |-> TRUE, ..., ptr] or [ok |-> FALSE, err, ptr], ptr the cursor it  *)
(* leaves behind.                                                          *)
(***************************************************************************)
\* the loops `for i in from..to { tokens.push(Token::from(...)?) }` over
\* words[from .. to - 1] (indices from 0)
RECURSIVE TokensFrom(_, _, _, _, _, _)
TokensFrom(words, from, to, ptr, allow_const, tokens) ==
    IF from >= to THEN [ok |-> TRUE, tokens |-> tokens]
    ELSE LET t == Call("Token_from", <<words[from + 1], ptr, allow_const>>)
         IN  IF ~t.ok THEN t
             ELSE Call("TokensFrom", <<words, from + 1, to, ptr, allow_const,
                             Append(tokens, t.token)>>)

parse_stmt_assign(lines, ptr, words) ==
    LET len == Len(words)
    IN  IF len < 4
        THEN [ok |-> FALSE, err |-> Err1("MalformedAssign", ptr - 1), ptr |-> ptr]
        ELSE LET var == Token_from_var(ptr, words[2])
             IN  IF ~var.ok THEN [ok |-> FALSE, err |-> var.err, ptr |-> ptr]
                 ELSE LET ts == Call("TokensFrom", <<words, 3, len, ptr, TRUE, <<>>>>)
                      IN  IF ~ts.ok THEN [ok |-> FALSE, err |-> ts.err, ptr |-> ptr]
                          ELSE [ok |-> TRUE, ptr |-> ptr,
                                stmt |-> [kind |-> "Assign", var |-> var.token,
                                          expr |-> ts.tokens, line |-> ptr - 1]]

parse_stmt_print(lines, ptr, words) ==
    LET vs == Call("TokensFrom", <<words, 1, Len(words), ptr, FALSE, <<>>>>)
    IN  IF ~vs.ok THEN [ok |-> FALSE, err |-> vs.err, ptr |-> ptr]
        ELSE [ok |-> TRUE, ptr |-> ptr,
              stmt |-> [kind |-> "Print", vars |-> vs.tokens, line |-> ptr - 1]]

parse_stmt_ret(lines, ptr, words) ==
    LET len == Len(words)
    IN  IF len < 2
        THEN [ok |-> FALSE, err |-> Err1("MalformedRet", ptr - 1), ptr |-> ptr]
        ELSE LET ts == Call("TokensFrom", <<words, 1, len, ptr, TRUE, <<>>>>)
             IN  IF ~ts.ok THEN [ok |-> FALSE, err |-> ts.err, ptr |-> ptr]
                 ELSE [ok |-> TRUE, ptr |-> ptr,
                       stmt |-> [kind |-> "Ret", expr |-> ts.tokens, line |-> ptr - 1]]

\* the parameter loop of parse_stmt_func over words[i .. to - 1]
RECURSIVE FuncParams(_, _, _, _, _)
FuncParams(words, i, to, ptr, params) ==
    IF i >= to THEN [ok |-> TRUE, params |-> params]
    ELSE LET t == Token_from_var(ptr, words[i + 1])
         IN  IF ~t.ok THEN t
             ELSE IF is_reserved_kw(t.token)
             THEN [ok |-> FALSE, err |-> Err2("DuplicateToken", ptr - 1, t.token)]
             ELSE Call("FuncParams", <<words, i + 1, to, ptr, Append(params, t.token)>>)


\* In parse_stmt_cond, parse_stmt_loop and parse_stmt_func the statement's
\* fields are evaluated in the order written: the child block is parsed
\* first, and `line: state.ptr - 1` reads the cursor that parse leaves.
parse_stmt_cond(lines, ptr, words) ==
    LET len == Len(words)
    IN  IF len < 3 \/ words[len] # "then"
        THEN [ok |-> FALSE, err |-> Err1("MalformedCond", ptr - 1), ptr |-> ptr]
        ELSE LET ts == Call("TokensFrom", <<words, 1, len - 1, ptr, TRUE, <<>>>>)
             IN  IF ~ts.ok THEN [ok |-> FALSE, err |-> ts.err, ptr |-> ptr]
                 ELSE LET child == Call("parse_node", <<lines, ptr, "if">>)
                      IN  IF ~child.ok THEN child
                          ELSE [ok |-> TRUE, ptr |-> child.ptr,
                                stmt |-> [kind |-> "Cond", expr |-> ts.tokens,
                                          child |-> child.stmts,
                                          line |-> child.ptr - 1]]

parse_stmt_loop(lines, ptr, words) ==
    LET len == Len(words)
    IN  IF len < 3 \/ words[len] # "do"
        THEN [ok |-> FALSE, err |-> Err1("MalformedLoop", ptr - 1), ptr |-> ptr]
        ELSE LET ts == Call("TokensFrom", <<words, 1, len - 1, ptr, TRUE, <<>>>>)
             IN  IF ~ts.ok THEN [ok |-> FALSE, err |-> ts.err, ptr |-> ptr]
                 ELSE LET child == Call("parse_node", <<lines, ptr, "while">>)
                      IN  IF ~child.ok THEN child
                          ELSE [ok |-> TRUE, ptr |-> child.ptr,
                                stmt |-> [kind |-> "Loop", expr |-> ts.tokens,
                                          child |-> child.stmts,
                                          line |-> child.ptr - 1]]

parse_stmt_func(lines, ptr, words) ==
    LET len == Len(words)
    IN  IF len < 3 \/ words[len] # "as"
        THEN [ok |-> FALSE, err |-> Err1("MalformedFunc", ptr - 1), ptr |-> ptr]
        ELSE LET name == Token_from_var(ptr, words[2])
             IN  IF ~name.ok THEN [ok |-> FALSE, err |-> name.err, ptr |-> ptr]
                 ELSE LET ps == Call("FuncParams", <<words, 2, len - 1, ptr, <<>>>>)
                      IN  IF ~ps.ok THEN [ok |-> FALSE, err |-> ps.err, ptr |-> ptr]
                          ELSE IF Len(ps.params) > 16
                          THEN [ok |-> FALSE, err |-> Err1("MalformedFunc", ptr - 1),
                                ptr |-> ptr]
                          ELSE LET child == Call("parse_node", <<lines, ptr, "function">>)
                               IN  IF ~child.ok THEN child
                                   ELSE [ok |-> TRUE, ptr |-> child.ptr,
                                         stmt |-> [kind |-> "Func", name |-> name.token,
                                                   params |-> ps.params,
                                                   child |-> child.stmts,
                                                   line |-> child.ptr - 1]]

parse_stmt(lines, ptr, words) ==
    CASE words[1] = "let"      -> Call("parse_stmt_assign", <<lines, ptr, words>>)
      [] words[1] = "if"       -> Call("parse_stmt_cond", <<lines, ptr, words>>)
      [] words[1] = "while"    -> Call("parse_stmt_loop", <<lines, ptr, words>>)
      [] words[1] = "print"    -> Call("parse_stmt_print", <<lines, ptr, words>>)
      [] words[1] = "return"   -> Call("parse_stmt_ret", <<lines, ptr, words>>)
      [] words[1] = "function" -> Call("parse_stmt_func", <<lines, ptr, words>>)
      [] OTHER -> [ok |-> FALSE, err |-> Err2("UnknownToken", ptr - 1, words[1]),
                   ptr |-> ptr]

\* StripComment that strips nothing
StripComment_keeps(line) == line

\* the text of a line before its first '#'
StripComment(line) ==
    IF FindChar(line, "#", 1) <= Len(line) THEN Split(line, "#")[1] ELSE line

\* Words without the filter
Words_unfiltered(line) == Split(line, " ")

\* line.split(' ').filter(|w| w.len() > 0)
Words(line) == SelectNonEmpty(Split(line, " "))

\* parse_node_loop that lets any `end <word>` close the block
parse_node_loop_any_end(lines, ptr, term, stmts) ==
    IF ~(ptr < Len(lines))
    THEN IF ~(Len(term) = 0)
         THEN [ok |-> FALSE, err |-> UnclosedBlock, ptr |-> ptr]
         ELSE [ok |-> TRUE, stmts |-> stmts, ptr |-> ptr]
    ELSE LET words == Words(StripComment(lines[ptr + 1]))
             ptr1  == ptr + 1
         IN  IF Len(words) = 0 THEN Call("parse_node_loop", <<lines, ptr1, term, stmts>>)
             ELSE IF words[1] = "end"
             THEN IF Len(words) = 2 /\ Len(term) > 0
                  THEN [ok |-> TRUE, stmts |-> stmts, ptr |-> ptr1]
                  ELSE [ok |-> FALSE, err |-> Err1("MalformedEnd", ptr1 - 1),
                        ptr |-> ptr1]
             ELSE LET st == Call("parse_stmt", <<lines, ptr1, words>>)
                  IN  IF ~st.ok THEN st
                      ELSE Call("parse_node_loop", <<lines, st.ptr, term,
                                           Append(stmts, st.stmt)>>)

\* the while loop of parse_node and what follows it; gracefully_ended is
\* true on entry exactly when the terminator is empty
RECURSIVE parse_node_loop(_, _, _, _)
parse_node_loop(lines, ptr, term, stmts) ==
    IF ~(ptr < Len(lines))
    THEN IF ~(Len(term) = 0)
         THEN [ok |-> FALSE, err |-> UnclosedBlock, ptr |-> ptr]
         ELSE [ok |-> TRUE, stmts |-> stmts, ptr |-> ptr]
    ELSE LET words == Words(StripComment(lines[ptr + 1]))
             ptr1  == ptr + 1
         IN  IF Len(words) = 0 THEN Call("parse_node_loop", <<lines, ptr1, term, stmts>>)
             ELSE IF words[1] = "end"
             THEN IF Len(words) = 2 /\ words[2] = term
                  THEN [ok |-> TRUE, stmts |-> stmts, ptr |-> ptr1]
                  ELSE [ok |-> FALSE, err |-> Err1("MalformedEnd", ptr1 - 1),
                        ptr |-> ptr1]
             ELSE LET st == Call("parse_stmt", <<lines, ptr1, words>>)
                  IN  IF ~st.ok THEN st
                      ELSE Call("parse_node_loop", <<lines, st.ptr, term,
                                           Append(stmts, st.stmt)>>)

parse_node(lines, ptr, term) == Call("parse_node_loop", <<lines, ptr, term, <<>>>>)

(***************************************************************************)
(* Evaluation and execution.                                               *)
(*                                                                         *)
(* What the interpreter does to the world while it evaluates is threaded   *)
(* through as a record io:                                                 *)
(*   stdin    the results the coming reads of standard input will give,    *)
(*            each [err |-> TRUE] (the read fails) or [err |-> FALSE,      *)
(*            text |-> t], t the line with its line feed, "" at end of     *)
(*            file;                                                        *)
(*   reads    how many reads were made;                                    *)
(*   eof      whether a read has reported end of file (every later read    *)
(*            reports it again);                                           *)
(*   out      what was written to standard output, in order;               *)
(*   produced the Variables the evaluator produced;                        *)
(*   returned the bodies of the functions whose call returned a value;     *)
(*   called   the frames of the calls made: the function's name, the       *)
(*            arguments and the scope the body starts in;                  *)
(*   fuel     how many more statements and calls the model follows;        *)
(*   checks   whether the build has overflow checks;                       *)
(*   ovf      whether an i128 operation overflowed and wrapped.            *)
(* An evaluation yields [ok |-> TRUE, ..., io] or [ok |-> FALSE, err, io]. *)
(* Besides the interpreter's errors, err can be one of three ends of the   *)
(* evaluation that are not a value of enum Error: Panic (an arithmetic     *)
(* overflow in a build with overflow checks), Starved (io.stdin is used    *)
(* up) and Fuel (io.fuel is used up).                                      *)
(***************************************************************************)
Abort(kind) == [kind |-> kind, line |-> 0]

IsAbort(err) == err.kind \in {"Panic", "Starved", "Fuel"}

EvalErr(err, io) == [ok |-> FALSE, err |-> err, io |-> io]

\* a Variable the evaluator produces
EvalOk(val, ptr, io) ==
    [ok |-> TRUE, val |-> val, ptr |-> ptr,
     io |-> [io EXCEPT !.produced = @ \cup {val}]]

\* the result r = [val, ovf] of an arithmetic operation of Variables
EvalArith(r, ptr, io) ==
    IF r.ovf /\ io.checks THEN EvalErr(Abort("Panic"), io)
    ELSE EvalOk(r.val, ptr, [io EXCEPT !.ovf = @ \/ r.ovf])

\* std::io::stdin().read_line: [starved |-> TRUE], or the result of the
\* read and the io after it
read_line(io) ==
    IF io.eof
    THEN [starved |-> FALSE, err |-> FALSE, text |-> "",
          io |-> [io EXCEPT !.reads = @ + 1]]
    ELSE IF io.stdin = <<>> THEN [starved |-> TRUE]
    ELSE LET r == Head(io.stdin)
             io1 == [io EXCEPT !.stdin = Tail(@), !.reads = @ + 1]
         IN  IF r.err THEN [starved |-> FALSE, err |-> TRUE, io |-> io1]
             ELSE [starved |-> FALSE, err |-> FALSE, text |-> r.text,
                   io |-> [io1 EXCEPT !.eof = (r.text = "")]]

BoolVar(b) == Variable_from(IF b THEN IntOf(1) ELSE IntOf(0))

IsBuiltin(op_token) ==
    op_token \in {"scan", "+", "-", "*", "%", "/", "==", "<", ">", "<=", ">=",
                  "!=", "and", "or", "xor", "not"}

\* the parameter count of a built-in operator
BuiltinCount(op_token) ==
    IF op_token = "scan" THEN 0 ELSE IF op_token = "not" THEN 1 ELSE 2

\* the "scan" arm of eval_expr_func
eval_scan(ptr, line, io) ==
    LET r == read_line([io EXCEPT !.out = Append(@, [kind |-> "scan_prompt"])])
    IN  IF r.starved THEN EvalErr(Abort("Starved"), io)
        ELSE IF r.err THEN EvalErr(Err2("InputError", line, "null"), r.io)
        ELSE LET inp == Trim(r.text)
                 v   == parse_i128(inp)
             IN  IF v.ok THEN EvalOk(Variable_from(v.val), ptr, r.io)
                 ELSE EvalErr(Err2("InputError", line, inp), r.io)

\* the arms of eval_expr_func's result for the built-in operators but scan
eval_builtin(op_token, v, ptr, io) ==
    LET is(i) == v[i + 1] # IntZero
    IN  CASE op_token = "+"   -> EvalArith(Call("Variable_add", <<v[1], v[2]>>), ptr, io)
          [] op_token = "-"   -> EvalArith(Call("Variable_sub", <<v[1], v[2]>>), ptr, io)
          [] op_token = "*"   -> EvalArith(Call("Variable_mul", <<v[1], v[2]>>), ptr, io)
          [] op_token = "%"   -> EvalArith(Call("Variable_rem", <<v[1], v[2]>>), ptr, io)
          [] op_token = "/"   -> EvalArith(Call("Variable_div", <<v[1], v[2]>>), ptr, io)
          [] op_token = "=="  -> EvalOk(BoolVar(v[1] = v[2]), ptr, io)
          [] op_token = "<"   -> EvalOk(BoolVar(IntCmp(v[1], v[2]) < 0), ptr, io)
          [] op_token = ">"   -> EvalOk(BoolVar(IntCmp(v[1], v[2]) > 0), ptr, io)
          [] op_token = "<="  -> EvalOk(BoolVar(IntCmp(v[1], v[2]) <= 0), ptr, io)
          [] op_token = ">="  -> EvalOk(BoolVar(IntCmp(v[1], v[2]) >= 0), ptr, io)
          [] op_token = "!="  -> EvalOk(BoolVar(v[1] # v[2]), ptr, io)
          [] op_token = "and" -> EvalOk(BoolVar(is(0) /\ is(1)), ptr, io)
          [] op_token = "or"  -> EvalOk(BoolVar(is(0) \/ is(1)), ptr, io)
          [] op_token = "xor" -> EvalOk(BoolVar(is(0) # is(1)), ptr, io)
          [] op_token = "not" -> EvalOk(BoolVar(~is(0)), ptr, io)


\* the loop `for _ in 0..op_cnt { *ptr += 1; params.push(eval_expr_func(..)?) }`
eval_params(instance, expr, ptr, line, io, op_cnt, params) ==
    IF Len(params) >= op_cnt
    THEN [ok |-> TRUE, params |-> params, ptr |-> ptr, io |-> io]
    ELSE LET r == Call("eval_expr_func", <<instance, expr, ptr + 1, line, io>>)
         IN  IF ~r.ok THEN r
             ELSE Call("eval_params", <<instance, expr, r.ptr, line, r.io, op_cnt,
                              Append(params, r.val)>>)

\* eval_expr_func from `// parse parameters` on, for operator op_token of
\* op_cnt parameters
eval_apply(instance, expr, ptr, line, io, op_token, op_cnt) ==
    LET ps == Call("eval_params", <<instance, expr, ptr, line, io, op_cnt, <<>>>>)
    IN  IF ~ps.ok THEN ps
        ELSE IF op_token = "scan" THEN Call("eval_scan", <<ps.ptr, line, ps.io>>)
        ELSE IF IsBuiltin(op_token)
        THEN Call("eval_builtin", <<op_token, ps.params, ps.ptr, ps.io>>)
        ELSE LET token == Token_from_var(line, op_token)
             IN  IF ~token.ok THEN EvalErr(token.err, ps.io)
                 ELSE LET r == Call("call_function", <<instance.prog, token.token,
                                                 ps.params, line, ps.io>>)
                      IN  IF ~r.ok THEN r ELSE EvalOk(r.val, ps.ptr, r.io)

\* eval_expr_func that looks a name up among the functions before the scope
eval_expr_func_funcs_first(instance, expr, ptr, line, io) ==
    IF ptr >= Len(expr) THEN EvalErr(Err1("BadExpression", line), io)
    ELSE LET op_token == expr[ptr + 1]
         IN  IF IsBuiltin(op_token)
             THEN Call("eval_apply", <<instance, expr, ptr, line, io, op_token,
                             BuiltinCount(op_token)>>)
             ELSE LET v == parse_i128(op_token)
                  IN  IF v.ok THEN EvalOk(Variable_from(v.val), ptr, io)
                      ELSE LET token == Token_from_var(line, op_token)
                           IN  IF ~token.ok THEN EvalErr(token.err, io)
                               ELSE IF token.token \in DOMAIN instance.prog.funcs
                               THEN Call("eval_apply", <<instance, expr, ptr, line, io, op_token,
                                               Len(instance.prog.funcs[token.token].params)>>)
                               ELSE IF token.token \in DOMAIN instance.scope
                               THEN EvalOk(instance.scope[token.token], ptr, io)
                               ELSE EvalErr(Err2("UndeclaredToken", line, token.token), io)

eval_expr_func(instance, expr, ptr, line, io) ==
    IF ptr >= Len(expr) THEN EvalErr(Err1("BadExpression", line), io)
    ELSE LET op_token == expr[ptr + 1]
         IN  IF IsBuiltin(op_token)
             THEN Call("eval_apply", <<instance, expr, ptr, line, io, op_token,
                             BuiltinCount(op_token)>>)
             ELSE LET v == parse_i128(op_token)
                  IN  IF v.ok THEN EvalOk(Variable_from(v.val), ptr, io)
                      ELSE LET token == Token_from_var(line, op_token)
                           IN  IF ~token.ok THEN EvalErr(token.err, io)
                               ELSE IF token.token \in DOMAIN instance.scope
                               THEN EvalOk(instance.scope[token.token], ptr, io)
                               ELSE IF token.token \in DOMAIN instance.prog.funcs
                               THEN Call("eval_apply", <<instance, expr, ptr, line, io, op_token,
                                               Len(instance.prog.funcs[token.token].params)>>)
                               ELSE EvalErr(Err2("UndeclaredToken", line, token.token), io)

\* eval_expr that lets two tokens stay behind the sub-expression
eval_expr_two_left(instance, expr, from_line, io) ==
    LET res == Call("eval_expr_func", <<instance, expr, 0, from_line, io>>)
    IN  IF ~res.ok THEN res
        ELSE IF res.ptr + 2 < Len(expr)
        THEN EvalErr(Err1("BadExpression", from_line), res.io)
        ELSE res

eval_expr(instance, expr, from_line, io) ==
    LET res == Call("eval_expr_func", <<instance, expr, 0, from_line, io>>)
    IN  IF ~res.ok THEN res
        ELSE IF res.ptr + 1 < Len(expr)
        THEN EvalErr(Err1("BadExpression", from_line), res.io)
        ELSE res

\* HashMap::insert
Insert(map, key, value) == (key :> value) @@ map

\* the values of the variables vars[i..] of a print statement, or the
\* first of them that is not in the scope
RECURSIVE PrintVals(_, _, _, _)
PrintVals(scope, vars, i, vals) ==
    IF i > Len(vars) THEN [ok |-> TRUE, vals |-> vals]
    ELSE IF vars[i] \notin DOMAIN scope THEN [ok |-> FALSE, var |-> vars[i]]
    ELSE PrintVals(scope, vars, i + 1, Append(vals, scope[vars[i]]))

\* exec_statement with the target of an assignment examined after the
\* expression is evaluated
exec_statement_late(instance, stmt, io0) ==
    LET io == [io0 EXCEPT !.fuel = @ - 1]
    IN  IF io0.fuel = 0 THEN EvalErr(Abort("Fuel"), io0)
        ELSE CASE stmt.kind = "Assign" ->
                 LET res == Call("eval_expr", <<instance, stmt.expr, stmt.line, io>>)
                 IN  IF ~res.ok THEN res
                     ELSE IF is_reserved_kw(stmt.var)
                             \/ stmt.var \in DOMAIN instance.prog.funcs
                     THEN EvalErr(Err2("DuplicateToken", stmt.line, stmt.var), res.io)
                     ELSE [ok |-> TRUE, io |-> res.io,
                           scope |-> Insert(instance.scope, stmt.var, res.val)]
          [] stmt.kind = "Cond" ->
                 LET cond == Call("eval_expr", <<instance, stmt.expr, stmt.line, io>>)
                 IN  IF ~cond.ok THEN cond
                     ELSE IF cond.val # IntZero
                     THEN Call("exec_node", <<instance, stmt.child, 1, cond.io>>)
                     ELSE [ok |-> TRUE, io |-> cond.io, scope |-> instance.scope]
          [] stmt.kind = "Loop" -> Call("exec_loop", <<instance, stmt, io>>)
          [] stmt.kind = "Print" ->
                 LET vs == PrintVals(instance.scope, stmt.vars, 1, <<>>)
                 IN  IF ~vs.ok
                     THEN EvalErr(Err2("UndeclaredToken", stmt.line, vs.var), io)
                     ELSE [ok |-> TRUE, scope |-> instance.scope,
                           io |-> [io EXCEPT !.out =
                                      Append(@, [kind |-> "print", vals |-> vs.vals])]]
          [] stmt.kind = "Ret" -> EvalErr(Err1("MisplacedRet", stmt.line), io)
          [] stmt.kind = "Func" -> EvalErr(Err1("WildFunction", stmt.line), io)

\* exec_statement, exec_node and the loop of Statement::Loop yield
\* [ok |-> TRUE, scope, io], scope the instance's scope afterwards
exec_statement(instance, stmt, io0) ==
    LET io == [io0 EXCEPT !.fuel = @ - 1]
    IN  IF io0.fuel = 0 THEN EvalErr(Abort("Fuel"), io0)
        ELSE CASE stmt.kind = "Assign" ->
                 IF is_reserved_kw(stmt.var) \/ stmt.var \in DOMAIN instance.prog.funcs
                 THEN EvalErr(Err2("DuplicateToken", stmt.line, stmt.var), io)
                 ELSE LET res == Call("eval_expr", <<instance, stmt.expr, stmt.line, io>>)
                      IN  IF ~res.ok THEN res
                          ELSE [ok |-> TRUE, io |-> res.io,
                                scope |-> Insert(instance.scope, stmt.var, res.val)]
          [] stmt.kind = "Cond" ->
                 LET cond == Call("eval_expr", <<instance, stmt.expr, stmt.line, io>>)
                 IN  IF ~cond.ok THEN cond
                     ELSE IF cond.val # IntZero
                     THEN Call("exec_node", <<instance, stmt.child, 1, cond.io>>)
                     ELSE [ok |-> TRUE, io |-> cond.io, scope |-> instance.scope]
          [] stmt.kind = "Loop" -> Call("exec_loop", <<instance, stmt, io>>)
          [] stmt.kind = "Print" ->
                 LET vs == PrintVals(instance.scope, stmt.vars, 1, <<>>)
                 IN  IF ~vs.ok
                     THEN EvalErr(Err2("UndeclaredToken", stmt.line, vs.var), io)
                     ELSE [ok |-> TRUE, scope |-> instance.scope,
                           io |-> [io EXCEPT !.out =
                                      Append(@, [kind |-> "print", vals |-> vs.vals])]]
          [] stmt.kind = "Ret" -> EvalErr(Err1("MisplacedRet", stmt.line), io)
          [] stmt.kind = "Func" -> EvalErr(Err1("WildFunction", stmt.line), io)

\* exec_node that stops after one statement
exec_node_once(instance, stmts, i, io) ==
    IF i > Len(stmts) THEN [ok |-> TRUE, scope |-> instance.scope, io |-> io]
    ELSE Call("exec_statement", <<instance, stmts[i], io>>)

\* the statements stmts[i..] of a node, in order
exec_node(instance, stmts, i, io) ==
    IF i > Len(stmts) THEN [ok |-> TRUE, scope |-> instance.scope, io |-> io]
    ELSE LET r == Call("exec_statement", <<instance, stmts[i], io>>)
         IN  IF ~r.ok THEN r
             ELSE Call("exec_node", <<[instance EXCEPT !.scope = r.scope], stmts, i + 1, r.io>>)

exec_loop(instance, stmt, io) ==
    LET cond == Call("eval_expr", <<instance, stmt.expr, stmt.line, io>>)
    IN  IF ~cond.ok THEN cond
        ELSE IF cond.val = IntZero
        THEN [ok |-> TRUE, io |-> cond.io, scope |-> instance.scope]
        ELSE IF cond.io.fuel = 0 THEN EvalErr(Abort("Fuel"), cond.io)
        ELSE LET r == Call("exec_node", <<instance, stmt.child, 1,
                                [cond.io EXCEPT !.fuel = @ - 1]>>)
             IN  IF ~r.ok THEN r
                 ELSE Call("exec_loop", <<[instance EXCEPT !.scope = r.scope], stmt, r.io>>)

\* BindParams without the insert
BindParams_none(prog, func, params, i, scope) == [ok |-> TRUE, scope |-> scope]

\* the loop of call_function that puts the parameters into the scope
RECURSIVE BindParams(_, _, _, _, _)
BindParams(prog, func, params, i, scope) ==
    IF i >= Len(params) THEN [ok |-> TRUE, scope |-> scope]
    ELSE LET key == func.params[i + 1]
         IN  IF key \in DOMAIN prog.funcs
             THEN [ok |-> FALSE, err |-> Err2("DuplicateToken", func.line, key)]
             ELSE BindParams(prog, func, params, i + 1,
                             Insert(scope, key, params[i + 1]))

EmptyMap == [k \in {} |-> 0]

\* the io after a call of function token with arguments params has made its
\* RunInstance, whose scope is scope
Frame(io, token, params, scope) ==
    [io EXCEPT !.called = @ \cup {[token |-> token, args |-> params,
                                   scope |-> scope]}]

\* call_function without the call-time body checks: a body that does not end in Ret returns 0.
call_function_lenient(prog, token, params, from_line, io0) ==
    LET io1 == [io0 EXCEPT !.fuel = @ - 1]
    IN  IF io0.fuel = 0 THEN EvalErr(Abort("Fuel"), io0)
        ELSE IF token \notin DOMAIN prog.funcs
        THEN EvalErr(Err2("UndeclaredToken", from_line, token), io1)
        ELSE LET stmts == prog.funcs[token].root
                 sc   == BindParams(prog, prog.funcs[token], params, 0, EmptyMap)
                 io   == IF sc.ok THEN Frame(io1, token, params, sc.scope) ELSE io1
                 ends == Len(stmts) >= 1 /\ stmts[Len(stmts)].kind = "Ret"
                 body == Call("exec_node", <<[prog |-> prog, scope |-> sc.scope],
                                  SubSeq(stmts, 1, Len(stmts) - (IF ends THEN 1 ELSE 0)),
                                  1, io>>)
             IN  IF ~sc.ok THEN EvalErr(sc.err, io)
                 ELSE IF ~body.ok THEN body
                 ELSE IF ~ends
                 THEN [ok |-> TRUE, val |-> IntZero,
                       io |-> [body.io EXCEPT !.returned = @ \cup {stmts}]]
                 ELSE LET r == Call("eval_expr", <<[prog |-> prog, scope |-> body.scope],
                                        stmts[Len(stmts)].expr, from_line, body.io>>)
                      IN  IF ~r.ok THEN r
                          ELSE [ok |-> TRUE, val |-> r.val,
                                io |-> [r.io EXCEPT !.returned = @ \cup {stmts}]]

\* call_function yields [ok |-> TRUE, val, io]; io.returned collects the
\* bodies of the functions whose call has returned a value
call_function(prog, token, params, from_line, io0) ==
    LET io1 == [io0 EXCEPT !.fuel = @ - 1]
    IN  IF io0.fuel = 0 THEN EvalErr(Abort("Fuel"), io0)
        ELSE IF token \notin DOMAIN prog.funcs
        THEN EvalErr(Err2("UndeclaredToken", from_line, token), io1)
        ELSE LET func == prog.funcs[token]
                 sc   == BindParams(prog, func, params, 0, EmptyMap)
                 io   == IF sc.ok THEN Frame(io1, token, params, sc.scope) ELSE io1
                 stmts == func.root
             IN  IF ~sc.ok THEN EvalErr(sc.err, io)
                 ELSE IF Len(stmts) < 1
                 THEN EvalErr(Err1("MisplacedRet", func.line), io)
                 ELSE LET body == Call("exec_node", <<[prog |-> prog, scope |-> sc.scope],
                                            SubSeq(stmts, 1, Len(stmts) - 1), 1, io>>)
                          last == stmts[Len(stmts)]
                      IN  IF ~body.ok THEN body
                          ELSE IF last.kind = "Ret"
                          THEN LET r == Call("eval_expr", <<[prog |-> prog, scope |-> body.scope],
                                                  last.expr, from_line, body.io>>)
                               IN  IF ~r.ok THEN r
                                   ELSE [ok |-> TRUE, val |-> r.val,
                                         io |-> [r.io EXCEPT !.returned = @ \cup {stmts}]]
                          ELSE EvalErr(Err1("MisplacedRet", func.line), body.io)

(***************************************************************************)
(* Whole-file execution                                                    *)
(***************************************************************************)
Function(params, root, line) == [params |-> params, root |-> root, line |-> line]

\* format_runtime_err: the line number of the header, the error, and the
\* text of the line the error names, trimmed ("" when there is none)
format_runtime_err(lines, err, line_offset) ==
    LET line == Error_line(err)
    IN  [kind |-> "error", line_no |-> line + line_offset, err |-> err,
         text |-> IF line < Len(lines) THEN Trim(lines[line + 1]) ELSE ""]

\* build_program that skips what is no function and lets a later function
\* replace an earlier one
RECURSIVE build_program_unchecked(_, _, _)
build_program_unchecked(stmts, i, prog) ==
    IF i > Len(stmts) THEN [ok |-> TRUE, prog |-> prog]
    ELSE IF stmts[i].kind # "Func" THEN build_program_unchecked(stmts, i + 1, prog)
    ELSE build_program_unchecked(stmts, i + 1,
             [funcs |-> Insert(prog.funcs, stmts[i].name,
                  Function(stmts[i].params, stmts[i].child, stmts[i].line))])

\* the loop of execute_program that constructs the program from the
\* statements stmts[i..] of the top-level block
build_program(stmts, i, prog) ==
    IF i > Len(stmts) THEN [ok |-> TRUE, prog |-> prog]
    ELSE LET stmt == stmts[i]
         IN  IF stmt.kind = "Func"
             THEN IF is_reserved_kw(stmt.name) \/ stmt.name \in DOMAIN prog.funcs
                  THEN [ok |-> FALSE,
                        err |-> Err2("DuplicateToken", stmt.line, stmt.name)]
                  ELSE Call("build_program", <<stmts, i + 1,
                           [funcs |-> Insert(prog.funcs, stmt.name,
                                Function(stmt.params, stmt.child, stmt.line))]>>)
             ELSE [ok |-> FALSE, err |-> Err1("WildStatement", stmt.line)]

EmptyProgram == [funcs |-> EmptyMap]

\* execute_program yields [ok |-> TRUE, val, data, io]: data is what main
\* returned, val is `data as i64`
execute_program(content, io) ==
    LET node == Call("parse_node", <<content, 0, "">>)
    IN  IF ~node.ok THEN EvalErr(node.err, io)
        ELSE LET built == Call("build_program", <<node.stmts, 1, EmptyProgram>>)
             IN  IF ~built.ok THEN EvalErr(built.err, io)
                 ELSE LET r == Call("call_function", <<built.prog, "main", <<>>, 0, io>>)
                      IN  IF ~r.ok THEN r
                          ELSE [ok |-> TRUE, val |-> WrapBytes(r.val, 8),
                                data |-> r.val, io |-> r.io]

\* a value of i32 as a number of TLC
RECURSIVE NatToNumber(_)
NatToNumber(m) == IF m = <<>> THEN 0 ELSE m[1] + 256 * NatToNumber(Tail(m))

I32ToNumber(x) ==
    IF x.neg THEN (0 - NatToNumber(NatSub(x.mag, <<1>>))) - 1
    ELSE NatToNumber(x.mag)

\* ExitCodeOf narrowed to the low 16 bits.
ExitCodeOf_low16(v) == NatToNumber(NatAnd(ModPow256(v, 8), <<255, 255>>))

\* (v & 0xffffffffi64) as i32
ExitCodeOf(v) ==
    I32ToNumber(WrapBytes(MkInt(FALSE, NatAnd(ModPow256(v, 8), <<255, 255, 255, 255>>)), 4))

NoError == [kind |-> "None", line |-> 0]

\* main_run_file, for a file [readable, content]: how the run ended
\* ("unreadable", "returned", "error", or an end that is no Error), the exit
\* code handed to process::exit, main's value and what is written
main_run_file(file, io) ==
    IF ~file.readable
    THEN [outcome |-> "unreadable", code |-> 1, err |-> NoError, data |-> IntZero,
          io |-> [io EXCEPT !.out = Append(@, [kind |-> "fatal"])]]
    ELSE LET content == Split(file.content, "\n")
             r == Call("execute_program", <<content, io>>)
         IN  IF r.ok
             THEN [outcome |-> "returned", code |-> ExitCodeOf(r.val),
                   err |-> NoError, data |-> r.data, io |-> r.io]
             ELSE IF IsAbort(r.err)
             THEN [outcome |-> r.err.kind, code |-> 1, err |-> r.err,
                   data |-> IntZero, io |-> r.io]
             ELSE [outcome |-> "error", code |-> 1, err |-> r.err, data |-> IntZero,
                   io |-> [r.io EXCEPT !.out =
                              Append(@, format_runtime_err(content, r.err, 1))]]

(***************************************************************************)
(* The REPL                                                                *)
(***************************************************************************)
\* assimilate that lets a later definition of a name replace the earlier
assimilate_replacing(stmts, i, prog, main_stmts) ==
    IF i > Len(stmts)
    THEN [ok |-> TRUE, prog |-> prog, main_stmts |-> main_stmts]
    ELSE LET stmt == stmts[i]
         IN  IF stmt.kind = "Func"
             THEN IF is_reserved_kw(stmt.name)
                  THEN [ok |-> FALSE, prog |-> prog, main_stmts |-> main_stmts,
                        err |-> Err2("DuplicateToken", stmt.line, stmt.name)]
                  ELSE Call("assimilate", <<stmts, i + 1,
                           [funcs |-> Insert(prog.funcs, stmt.name,
                                Function(stmt.params, stmt.child, stmt.line))],
                           main_stmts>>)
             ELSE IF stmt.kind = "Ret"
             THEN [ok |-> FALSE, prog |-> prog, main_stmts |-> main_stmts,
                   err |-> Err1("WildStatement", stmt.line)]
             ELSE Call("assimilate", <<stmts, i + 1, prog, Append(main_stmts, stmt)>>)

\* the loop of execute_block over the statements stmts[i..] of the parsed
\* node: a function is added to the program, a return is refused, any
\* other statement is pushed on main_stmts.  prog and main_stmts are
\* changed in place, so what was done before an error stays done.
assimilate(stmts, i, prog, main_stmts) ==
    IF i > Len(stmts)
    THEN [ok |-> TRUE, prog |-> prog, main_stmts |-> main_stmts]
    ELSE LET stmt == stmts[i]
         IN  IF stmt.kind = "Func"
             THEN IF is_reserved_kw(stmt.name) \/ stmt.name \in DOMAIN prog.funcs
                  THEN [ok |-> FALSE, prog |-> prog, main_stmts |-> main_stmts,
                        err |-> Err2("DuplicateToken", stmt.line, stmt.name)]
                  ELSE Call("assimilate", <<stmts, i + 1,
                           [funcs |-> Insert(prog.funcs, stmt.name,
                                Function(stmt.params, stmt.child, stmt.line))],
                           main_stmts>>)
             ELSE IF stmt.kind = "Ret"
             THEN [ok |-> FALSE, prog |-> prog, main_stmts |-> main_stmts,
                   err |-> Err1("WildStatement", stmt.line)]
             ELSE Call("assimilate", <<stmts, i + 1, prog, Append(main_stmts, stmt)>>)

\* the loop of execute_block that executes main_stmts[new_exec_ptr ..]
\* (new_exec_ptr counts from 0)
attempt_execution(instance, main_stmts, new_exec_ptr, io) ==
    IF ~(new_exec_ptr < Len(main_stmts))
    THEN [ok |-> TRUE, scope |-> instance.scope, new_exec_ptr |-> new_exec_ptr,
          io |-> io]
    ELSE LET r == Call("exec_statement", <<instance, main_stmts[new_exec_ptr + 1], io>>)
         IN  IF ~r.ok THEN r
             ELSE Call("attempt_execution", <<[instance EXCEPT !.scope = r.scope],
                                    main_stmts, new_exec_ptr + 1, r.io>>)

\* execute_block that does not write new_exec_ptr back
execute_block_no_advance(st, io) ==
    LET node == Call("parse_node", <<st.lines, st.ptr, "">>)
    IN  IF ~node.ok
        THEN [ok |-> FALSE, err |-> node.err, io |-> io,
              st |-> [st EXCEPT !.ptr = node.ptr]]
        ELSE LET as == Call("assimilate", <<node.stmts, 1, st.prog, st.main_stmts>>)
                 st1 == [st EXCEPT !.ptr = node.ptr, !.prog = as.prog,
                                   !.main_stmts = as.main_stmts]
             IN  IF ~as.ok
                 THEN [ok |-> FALSE, err |-> as.err, io |-> io, st |-> st1]
                 ELSE LET run == Call("attempt_execution", <<
                                     [prog |-> st1.prog, scope |-> st.scope],
                                     st1.main_stmts, st.exec_ptr, io>>)
                      IN  IF ~run.ok
                          THEN [ok |-> FALSE, err |-> run.err, io |-> run.io,
                                st |-> st1]
                          ELSE [ok |-> TRUE, io |-> run.io,
                                st |-> [st1 EXCEPT !.scope = run.scope @@ st.scope,
                                                   !.last_ptr = st1.ptr]]

\* execute_block on the REPL's state st = [lines, ptr, prog, scope,
\* main_stmts, last_ptr, exec_ptr]: the state it leaves, with ok and, when
\* it fails, err
execute_block(st, io) ==
    LET node == Call("parse_node", <<st.lines, st.ptr, "">>)
    IN  IF ~node.ok
        THEN [ok |-> FALSE, err |-> node.err, io |-> io,
              st |-> [st EXCEPT !.ptr = node.ptr]]
        ELSE LET as == Call("assimilate", <<node.stmts, 1, st.prog, st.main_stmts>>)
                 st1 == [st EXCEPT !.ptr = node.ptr, !.prog = as.prog,
                                   !.main_stmts = as.main_stmts]
             IN  IF ~as.ok
                 THEN [ok |-> FALSE, err |-> as.err, io |-> io, st |-> st1]
                 ELSE LET run == Call("attempt_execution", <<
                                     [prog |-> st1.prog, scope |-> st.scope],
                                     st1.main_stmts, st.exec_ptr, io>>)
                      IN  IF ~run.ok
                          THEN [ok |-> FALSE, err |-> run.err, io |-> run.io,
                                st |-> st1]
                          ELSE [ok |-> TRUE, io |-> run.io,
                                st |-> [st1 EXCEPT !.scope = run.scope @@ st.scope,
                                                   !.last_ptr = st1.ptr,
                                                   !.exec_ptr = run.new_exec_ptr]]

\* `while state.ptr > 0 && state.ptr > state.lines.len() { state.ptr -= 1 }`
RECURSIVE clamp_ptr(_, _)
clamp_ptr(ptr, len) ==
    IF ptr > 0 /\ ptr > len THEN clamp_ptr(ptr - 1, len) ELSE ptr

\* pop_to with no truncation: nothing is popped.
pop_to_nothing(v, n) == v

\* `while v.len() > n { v.pop() }`
RECURSIVE pop_to(_, _)
pop_to(v, n) == IF Len(v) > n THEN pop_to(SubSeq(v, 1, Len(v) - 1), n) ELSE v

\* the arm `Ok(_)` of the match on execute_block's result r
repl_on_ok(r) ==
    [outcome |-> "absorbed", err |-> NoError, st |-> r.st, in_block |-> FALSE,
     io |-> r.io]

\* repl_on_unclosed alternatives: the mode is READY afterwards; ptr is not
\* restored.
repl_on_unclosed_ready(r) ==
    [outcome |-> "unclosed", err |-> r.err, in_block |-> FALSE, io |-> r.io,
     st |-> [r.st EXCEPT !.ptr = r.st.last_ptr]]

repl_on_unclosed_keeps_ptr(r) ==
    [outcome |-> "unclosed", err |-> r.err, in_block |-> TRUE, io |-> r.io,
     st |-> r.st]

\* the arm `Err(Error::UnclosedBlock)`
repl_on_unclosed(r) ==
    [outcome |-> "unclosed", err |-> r.err, in_block |-> TRUE, io |-> r.io,
     st |-> [r.st EXCEPT !.ptr = r.st.last_ptr]]

\* the arm `Err(err)` without `state.ptr = last_ptr`
repl_on_error_keeps_ptr(r) ==
    [outcome |-> "error", err |-> r.err, in_block |-> FALSE,
     io |-> [r.io EXCEPT !.out = Append(@, format_runtime_err(r.st.lines, r.err, 0))],
     st |-> [r.st EXCEPT !.lines = pop_to(@, r.st.last_ptr + 1),
                         !.main_stmts = pop_to(@, r.st.exec_ptr)]]

\* the arm `Err(err)`
repl_on_error(r) ==
    [outcome |-> "error", err |-> r.err, in_block |-> FALSE,
     io |-> [r.io EXCEPT !.out = Append(@, format_runtime_err(r.st.lines, r.err, 0))],
     st |-> [r.st EXCEPT !.lines = pop_to(@, r.st.last_ptr + 1),
                         !.main_stmts = pop_to(@, r.st.exec_ptr),
                         !.ptr = r.st.last_ptr]]

\* One iteration of the loop of main_interactive_interpreter from
\* `// push and attempt to parse` on, for the trimmed input line inp_line:
\* the REPL's state and in_block afterwards, and how the iteration ended
\* ("absorbed", "unclosed" or "error", or an end that is no Error).
repl_iteration(st, in_block, inp_line, io) ==
    LET st0 == [st EXCEPT !.ptr = clamp_ptr(st.ptr, Len(st.lines)),
                          !.lines = Append(st.lines, inp_line)]
        r == Call("execute_block", <<st0, io>>)
    IN  IF r.ok THEN repl_on_ok(r)
        ELSE IF IsAbort(r.err)
        THEN [outcome |-> r.err.kind, err |-> r.err, st |-> r.st,
              in_block |-> in_block, io |-> r.io]
        ELSE IF r.err = UnclosedBlock THEN repl_on_unclosed(r)
        ELSE repl_on_error(r)

\* repl_loop that intercepts `copyright` and `license` at the `>>> `
\* prompt only
repl_loop_ready_only(st, in_block, io) ==
    LET io1 == [io EXCEPT !.out = Append(@, [kind |-> "prompt",
                              text |-> IF in_block THEN "... " ELSE ">>> "])]
        rd == read_line(io1)
    IN  IF rd.starved
        THEN [outcome |-> "Starved", err |-> NoError, st |-> st,
              in_block |-> in_block, io |-> io1]
        ELSE IF rd.err
        THEN [outcome |-> "break", err |-> NoError, st |-> st, in_block |-> in_block,
              io |-> [rd.io EXCEPT !.out = Append(@, [kind |-> "newline"])]]
        ELSE LET inp_line == Trim(rd.text)
             IN  IF inp_line \in {"copyright", "license"} /\ ~in_block
                 THEN [outcome |-> "intercepted", err |-> NoError, st |-> st,
                       in_block |-> in_block,
                       io |-> [rd.io EXCEPT !.out = Append(@, [kind |-> inp_line])]]
                 ELSE Call("repl_iteration", <<st, in_block, inp_line, rd.io>>)

\* One iteration of the loop of main_interactive_interpreter: the prompt,
\* the read, the interception of `copyright` and `license`, and the rest.
\* "break" is the end of the loop, "intercepted" a `continue`.
repl_loop(st, in_block, io) ==
    LET io1 == [io EXCEPT !.out = Append(@, [kind |-> "prompt",
                              text |-> IF in_block THEN "... " ELSE ">>> "])]
        rd == read_line(io1)
    IN  IF rd.starved
        THEN [outcome |-> "Starved", err |-> NoError, st |-> st,
              in_block |-> in_block, io |-> io1]
        ELSE IF rd.err
        THEN [outcome |-> "break", err |-> NoError, st |-> st, in_block |-> in_block,
              io |-> [rd.io EXCEPT !.out = Append(@, [kind |-> "newline"])]]
        ELSE LET inp_line == Trim(rd.text)
             IN  IF inp_line = "copyright"
                 THEN [outcome |-> "intercepted", err |-> NoError, st |-> st,
                       in_block |-> in_block,
                       io |-> [rd.io EXCEPT !.out = Append(@, [kind |-> "copyright"])]]
                 ELSE IF inp_line = "license"
                 THEN [outcome |-> "intercepted", err |-> NoError, st |-> st,
                       in_block |-> in_block,
                       io |-> [rd.io EXCEPT !.out = Append(@, [kind |-> "license"])]]
                 ELSE Call("repl_iteration", <<st, in_block, inp_line, rd.io>>)

(***************************************************************************)
(* Call(fn, a) is the call of the function named fn with the arguments a.  *)
(***************************************************************************)
Call(fn, a) ==
    CASE fn = "parse_node" -> parse_node(a[1], a[2], a[3])
      [] fn = "eval_expr_func" -> eval_expr_func(a[1], a[2], a[3], a[4], a[5])
      [] fn = "eval_params" -> eval_params(a[1], a[2], a[3], a[4], a[5], a[6], a[7])
      [] fn = "eval_apply" -> eval_apply(a[1], a[2], a[3], a[4], a[5], a[6], a[7])
      [] fn = "eval_scan" -> eval_scan(a[1], a[2], a[3])
      [] fn = "eval_builtin" -> eval_builtin(a[1], a[2], a[3], a[4])
      [] fn = "eval_expr" -> eval_expr(a[1], a[2], a[3], a[4])
      [] fn = "exec_statement" -> exec_statement(a[1], a[2], a[3])
      [] fn = "exec_node" -> exec_node(a[1], a[2], a[3], a[4])
      [] fn = "exec_loop" -> exec_loop(a[1], a[2], a[3])
      [] fn = "call_function" -> call_function(a[1], a[2], a[3], a[4], a[5])
      [] fn = "Variable_add" -> Variable_add(a[1], a[2])
      [] fn = "Variable_sub" -> Variable_sub(a[1], a[2])
      [] fn = "Variable_mul" -> Variable_mul(a[1], a[2])
      [] fn = "Variable_rem" -> Variable_rem(a[1], a[2])
      [] fn = "Variable_div" -> Variable_div(a[1], a[2])
      [] fn = "build_program" -> build_program(a[1], a[2], a[3])
      [] fn = "assimilate" -> assimilate(a[1], a[2], a[3], a[4])
      [] fn = "attempt_execution" -> attempt_execution(a[1], a[2], a[3], a[4])
      [] fn = "execute_program" -> execute_program(a[1], a[2])
      [] fn = "execute_block" -> execute_block(a[1], a[2])
      [] fn = "repl_iteration" -> repl_iteration(a[1], a[2], a[3], a[4])
      [] fn = "repl_loop" -> repl_loop(a[1], a[2], a[3])
      [] fn = "main_run_file" -> main_run_file(a[1], a[2])
      [] fn = "parse_stmt" -> parse_stmt(a[1], a[2], a[3])
      [] fn = "parse_stmt_assign" -> parse_stmt_assign(a[1], a[2], a[3])
      [] fn = "parse_stmt_cond" -> parse_stmt_cond(a[1], a[2], a[3])
      [] fn = "parse_stmt_loop" -> parse_stmt_loop(a[1], a[2], a[3])
      [] fn = "parse_stmt_print" -> parse_stmt_print(a[1], a[2], a[3])
      [] fn = "parse_stmt_ret" -> parse_stmt_ret(a[1], a[2], a[3])
      [] fn = "parse_stmt_func" -> parse_stmt_func(a[1], a[2], a[3])
      [] fn = "parse_node_loop" -> parse_node_loop(a[1], a[2], a[3], a[4])
      [] fn = "TokensFrom" -> TokensFrom(a[1], a[2], a[3], a[4], a[5], a[6])
      [] fn = "Token_from" -> Token_from(a[1], a[2], a[3])
      [] fn = "FuncParams" -> FuncParams(a[1], a[2], a[3], a[4], a[5])
      [] fn = "I128" -> I128(a[1])
      [] fn = "IntTruncDiv" -> IntTruncDiv(a[1], a[2])
      [] fn = "IntTruncRem" -> IntTruncRem(a[1], a[2])
      [] fn = "NatDivMod" -> NatDivMod(a[1], a[2])

(***************************************************************************)
(* The process as a state machine                                          *)
(***************************************************************************)
VARIABLES
    pc,               \* "start", "repl", "exited", "panicked" or "statement"
    argc,             \* args.len() of main
    overflow_checks,  \* the build: "on", "off", "unobserved" until it matters
    stdin_eof,        \* standard input has reported its end
    lines, ptr,       \* ParserState of the REPL
    last_ptr, prog, main_stmts, scope, exec_ptr, in_block,
    out,              \* what the last step wrote
    exit_code,        \* <<code>> once the process has exited
    last,             \* how the last step ended: [outcome, err, data]
    txn,              \* the REPL's state at the `>>> ` prompt of the input that
                      \* is pending or was decided last
    pending,          \* the lines of that input
    absorbed,         \* the lines of all inputs absorbed so far
    produced,         \* the Variables the last step produced
    returned,         \* the bodies of the functions that returned in it
    called            \* the frames of the calls made in it

vars == <<pc, argc, overflow_checks, stdin_eof, lines, ptr, last_ptr, prog,
          main_stmts, scope, exec_ptr, in_block, out, exit_code, last, txn,
          pending, absorbed, produced, returned, called>>

MaxArgs == 3
MaxLines == 6
MaxFuel == 40
MaxScans == 2

ReplState ==
    [lines |-> lines, ptr |-> ptr, prog |-> prog, scope |-> scope,
     main_stmts |-> main_stmts, last_ptr |-> last_ptr, exec_ptr |-> exec_ptr]

\* the state main_interactive_interpreter constructs
InitialReplState ==
    [lines |-> <<"">>, ptr |-> 0, prog |-> EmptyProgram, scope |-> EmptyMap,
     main_stmts |-> <<>>, last_ptr |-> 0, exec_ptr |-> 0]

NewIO(feed, checks) ==
    [stdin |-> feed, reads |-> 0, eof |-> stdin_eof, out |-> <<>>,
     produced |-> {}, returned |-> {}, called |-> {}, fuel |-> MaxFuel,
     checks |-> checks, ovf |-> FALSE]

\* the builds a step whose arithmetic overflows (ovf) can have been made by
Profiles(ovf) ==
    IF ~ovf THEN {FALSE}
    ELSE IF overflow_checks = "unobserved" THEN BOOLEAN
    ELSE {overflow_checks = "on"}

ProfileAfter(ovf, checks) ==
    IF ~ovf THEN overflow_checks ELSE IF checks THEN "on" ELSE "off"

Read(text) == [err |-> FALSE, text |-> text]
ReadError == [err |-> TRUE]

\* what a read of the REPL can bring: a line, the end of input, an error
ReplInputs ==
    { Read("let x = 1\n"), Read("let x = + x 1\n"), Read("function g as\n"),
      Read("return 1\n"), Read("end function\n"), Read("if 1 then\n"),
      Read("end if\n"), Read("copyright\n"), Read("  license \n"),
      Read(""), ReadError }

\* what the reads of scan can bring
ScanReplies ==
    { Read("0\n"), Read("7\n"), Read("-1\n"), Read("4294967301\n"),
      Read("2147483648\n"), Read("281474976710661\n"),
      Read("-281474976710661\n"), Read("x\n"), Read(""), ReadError }

RECURSIVE SeqsUpTo(_, _)
SeqsUpTo(S, n) ==
    IF n = 0 THEN {<<>>}
    ELSE LET T == SeqsUpTo(S, n - 1)
         IN  T \cup {Append(t, x) : t \in {u \in T : Len(u) = n - 1}, x \in S}

Init ==
    /\ pc = "start"
    /\ argc \in 1..MaxArgs
    /\ overflow_checks = "unobserved"
    /\ stdin_eof = FALSE
    /\ lines = InitialReplState.lines
    /\ ptr = InitialReplState.ptr
    /\ last_ptr = InitialReplState.last_ptr
    /\ prog = InitialReplState.prog
    /\ main_stmts = InitialReplState.main_stmts
    /\ scope = InitialReplState.scope
    /\ exec_ptr = InitialReplState.exec_ptr
    /\ in_block = FALSE
    /\ out = <<>>
    /\ exit_code = <<>>
    /\ last = [outcome |-> "none", err |-> NoError, data |-> IntZero]
    /\ txn = InitialReplState
    /\ pending = <<>>
    /\ absorbed = <<>>
    /\ produced = {}
    /\ returned = {}
    /\ called = {}

\* main with at most the program's name in args: the banner, then the REPL
MainInteractive ==
    /\ pc = "start"
    /\ argc <= 1
    /\ pc' = "repl"
    /\ out' = <<[kind |-> "banner"]>>
    /\ UNCHANGED <<argc, overflow_checks, stdin_eof, lines, ptr, last_ptr, prog,
                   main_stmts, scope, exec_ptr, in_block, exit_code, last, txn,
                   pending, absorbed, produced, returned, called>>

\* main with more than one argument after the program's name
MainUsage ==
    /\ pc = "start"
    /\ argc > 2
    /\ pc' = "exited"
    /\ out' = <<[kind |-> "fatal"]>>
    /\ exit_code' = <<0>>
    /\ UNCHANGED <<argc, overflow_checks, stdin_eof, lines, ptr, last_ptr, prog,
                   main_stmts, scope, exec_ptr, in_block, last, txn, pending,
                   absorbed, produced, returned, called>>

\* one iteration of the REPL's loop
Repl ==
    /\ pc = "repl"
    /\ Len(lines) < MaxLines
    /\ \E feed \in IF stdin_eof THEN {<<>>} ELSE {<<i>> : i \in ReplInputs} :
         \E r0 \in {Call("repl_loop", <<ReplState, in_block, NewIO(feed, FALSE)>>)} :
             \E checks \in Profiles(r0.io.ovf) :
             \E r \in {IF checks
                       THEN Call("repl_loop", <<ReplState, in_block, NewIO(feed, TRUE)>>)
                       ELSE r0} :
               LET began == IF in_block THEN txn ELSE ReplState
                   fed == IF stdin_eof THEN "" ELSE Trim(feed[1].text)
                   all == IF in_block THEN Append(pending, fed) ELSE <<fed>>
               IN  /\ r.outcome \notin {"Starved", "Fuel"}
                   /\ r.io.stdin = <<>>
                   /\ pc' = CASE r.outcome = "break" -> "exited"
                              [] r.outcome = "Panic" -> "panicked"
                              [] OTHER -> "repl"
                   /\ exit_code' = IF r.outcome = "break" THEN <<0>> ELSE exit_code
                   /\ overflow_checks' = ProfileAfter(r0.io.ovf, checks)
                   /\ stdin_eof' = r.io.eof
                   /\ lines' = r.st.lines
                   /\ ptr' = r.st.ptr
                   /\ last_ptr' = r.st.last_ptr
                   /\ prog' = r.st.prog
                   /\ main_stmts' = r.st.main_stmts
                   /\ scope' = r.st.scope
                   /\ exec_ptr' = r.st.exec_ptr
                   /\ in_block' = r.in_block
                   /\ out' = r.io.out
                   /\ last' = [outcome |-> r.outcome, err |-> r.err, data |-> IntZero]
                   /\ txn' = began
                   /\ pending' = IF r.outcome \in {"absorbed", "unclosed", "error"}
                                 THEN all ELSE pending
                   /\ absorbed' = IF r.outcome = "absorbed"
                                  THEN absorbed \o all ELSE absorbed
                   /\ produced' = r.io.produced
                   /\ returned' = r.io.returned
                   /\ called' = r.io.called
                   /\ UNCHANGED argc

File(content) == [readable |-> TRUE, content |-> content]

\* main returns what scan reads
FileReturnScan == File("function main as\n return scan\nend function\n")

\* main prints the quotient and returns the remainder of two numbers read
FileDivRem ==
    File("function main as\n let a = scan\n let b = scan\n let q = / a b\n print q a b\n return % a b\nend function\n")

\* a function with parameters, a loop, a condition
FileSum ==
    File("# sum\nfunction add a b as\n return + a b\nend function\nfunction main as\n let i = 0\n let s = 0\n while < i 3 do\n  let s = add s i\n  let i = + i 1\n end while\n if == s 3 then\n  print s i\n end if\n return - 0 add s 4\nend function")

\* a function whose body has no return, never called and called
FileNoRet ==
    File("function f as\n let x = 1\nend function\nfunction main as\n return 3\nend function\n")

FileCallNoRet ==
    File("function f as\n let x = 1\nend function\nfunction main as\n return f\nend function\n")

\* a return in the middle of the body that runs
FileMidRet ==
    File("function main as\n return 1\n return 2\nend function\n")

FileUnclosed == File("function main as\n return 1\n")

FileWild == File("let x = 1\nfunction main as\n return 1\nend function\n")

\* -(2^48 - 1) * (2^48 - 1) * (2^48 - 1) is beyond i128
FileOverflow ==
    File("function main as\n let a = - 0 281474976710655\n let b = * a 281474976710655\n return * b 281474976710655\nend function\n")

Files ==
    { FileReturnScan, FileDivRem, FileSum, FileNoRet, FileCallNoRet, FileMidRet,
      FileUnclosed, FileWild, FileOverflow, [readable |-> FALSE, content |-> ""] }

\* main with one argument after the program's name: main_run_file and
\* process::exit with its result
MainRunFile ==
    /\ pc = "start"
    /\ argc = 2
    /\ \E file \in Files, feed \in SeqsUpTo(ScanReplies, MaxScans) :
         \E r0 \in {Call("main_run_file", <<file, NewIO(feed, FALSE)>>)} :
             \E checks \in Profiles(r0.io.ovf) :
             \E r \in {IF checks THEN Call("main_run_file", <<file, NewIO(feed, TRUE)>>)
                       ELSE r0} :
                   /\ r.outcome \notin {"Starved", "Fuel"}
                   /\ r.io.stdin = <<>>
                   /\ pc' = IF r.outcome = "Panic" THEN "panicked" ELSE "exited"
                   /\ exit_code' = IF r.outcome = "Panic" THEN <<>> ELSE <<r.code>>
                   /\ overflow_checks' = ProfileAfter(r0.io.ovf, checks)
                   /\ stdin_eof' = r.io.eof
                   /\ out' = r.io.out
                   /\ last' = [outcome |-> r.outcome, err |-> r.err, data |-> r.data]
                   /\ produced' = r.io.produced
                   /\ returned' = r.io.returned
                   /\ called' = r.io.called
                   /\ UNCHANGED <<argc, lines, ptr, last_ptr, prog, main_stmts,
                                  scope, exec_ptr, in_block, txn, pending, absorbed>>

Next == MainInteractive \/ MainRunFile \/ MainUsage \/ Repl

Spec == Init /\ [][Next]_vars

(***************************************************************************)
(* One statement executed on two Variables                                 *)
(***************************************************************************)
\* the Variables a and b are drawn from: small ones, the largest positive
\* one, negative ones beyond 2^48, i128::MIN
ArithTexts ==
    { "0", "1", "2", "5", "7", "-1", "-7", "16777216", "281474976710655",
      "-281474976710661", "-170141183460469231731687303715884105728" }

ArithValues == {Variable_from(parse_i128(t).val) : t \in ArithTexts}

ArithProgram ==
    Call("build_program",
         <<Call("parse_node", <<<<"function mul p q as", "return * p q",
                                  "end function">>, 0, "">>).stmts,
           1, EmptyProgram>>).prog

\* the statements: every way the evaluator produces a Variable
ArithLines ==
    { "let s = + a b", "let d = - a b", "let m = * a b", "let r = % a b",
      "let q = / a b", "let c = < a b", "let e = == a b", "let n = not a",
      "let o = or a b", "let k = 281474976710661", "let i = scan",
      "let f = mul a b" }

InitArith ==
    /\ pc = "statement"
    /\ argc = 1
    /\ overflow_checks = "unobserved"
    /\ stdin_eof = FALSE
    /\ lines = InitialReplState.lines
    /\ ptr = InitialReplState.ptr
    /\ last_ptr = InitialReplState.last_ptr
    /\ prog = ArithProgram
    /\ main_stmts = InitialReplState.main_stmts
    /\ \E a \in ArithValues, b \in ArithValues : scope = ("a" :> a) @@ ("b" :> b)
    /\ exec_ptr = InitialReplState.exec_ptr
    /\ in_block = FALSE
    /\ out = <<>>
    /\ exit_code = <<>>
    /\ last = [outcome |-> "none", err |-> NoError, data |-> IntZero]
    /\ txn = InitialReplState
    /\ pending = <<>>
    /\ absorbed = <<>>
    /\ produced = {}
    /\ returned = {}
    /\ called = {}

\* the Error of a Result
ErrorOf(r) == IF r.ok THEN NoError ELSE r.err

\* exec_statement of one statement in the scope of a and b
ExecStatement ==
    /\ pc = "statement"
    /\ \E text \in ArithLines, feed \in SeqsUpTo(ScanReplies, 1) :
         \E node \in {Call("parse_node", <<<<text>>, 0, "">>)} :
         \E r0 \in {Call("exec_statement", <<[prog |-> prog, scope |-> scope],
                                            node.stmts[1], NewIO(feed, FALSE)>>)} :
         \E checks \in Profiles(r0.io.ovf) :
         \E r \in {IF checks
                   THEN Call("exec_statement", <<[prog |-> prog, scope |-> scope],
                                                node.stmts[1], NewIO(feed, TRUE)>>)
                   ELSE r0} :
             /\ ErrorOf(r).kind \notin {"Starved", "Fuel"}
             /\ r.io.stdin = <<>>
             /\ pc' = IF ErrorOf(r).kind = "Panic" THEN "panicked" ELSE "done"
             /\ overflow_checks' = ProfileAfter(r0.io.ovf, checks)
             /\ stdin_eof' = r.io.eof
             /\ scope' = IF r.ok THEN r.scope ELSE scope
             /\ out' = r.io.out
             /\ last' = [outcome |-> IF r.ok THEN "executed" ELSE "error",
                         err |-> ErrorOf(r), data |-> IntZero]
             /\ produced' = r.io.produced
             /\ returned' = r.io.returned
             /\ called' = r.io.called
             /\ UNCHANGED <<argc, lines, ptr, last_ptr, prog, main_stmts, exec_ptr,
                            in_block, exit_code, txn, pending, absorbed>>

SpecArith == InitArith /\ [][ExecStatement]_vars

(***************************************************************************)
(* The parse of a line array                                               *)
(***************************************************************************)
\* the lines an array is made of: statements with single and repeated
\* spaces, with and without comments, block heads and ends, a line of a
\* comment only, a line of spaces only, tokens with characters that are
\* not allowed
ParseAlphabet ==
    { "let x = 1", "  let  y =  + x 1  # inc", "if x then # c", "end if",
      "function f a as", " end  function ", "return x #X", "print X", "#",
      "  " }

MaxParseLines == 4

InitParse ==
    /\ pc = "parse"
    /\ argc = 2
    /\ overflow_checks = "unobserved"
    /\ stdin_eof = FALSE
    /\ lines \in SeqsUpTo(ParseAlphabet, MaxParseLines)
    /\ ptr = 0
    /\ last_ptr = InitialReplState.last_ptr
    /\ prog = EmptyProgram
    /\ main_stmts = <<>>
    /\ scope = EmptyMap
    /\ exec_ptr = InitialReplState.exec_ptr
    /\ in_block = FALSE
    /\ out = <<>>
    /\ exit_code = <<>>
    /\ last = [outcome |-> "none", err |-> NoError, data |-> IntZero]
    /\ txn = InitialReplState
    /\ pending = <<>>
    /\ absorbed = <<>>
    /\ produced = {}
    /\ returned = {}
    /\ called = {}

\* what a parse of the top-level block gives: the statements or the error
ParseOutcome(node) ==
    [stmts |-> IF node.ok THEN node.stmts ELSE <<>>, err |-> ErrorOf(node)]

\* the first step of execute_program: the State of the line array with the
\* cursor at 0, and parse_node with the empty terminator
ParseLines ==
    /\ pc = "parse"
    /\ \E node \in {Call("parse_node", <<lines, ptr, "">>)} :
         /\ pc' = "parsed"
         /\ ptr' = node.ptr
         /\ main_stmts' = ParseOutcome(node).stmts
         /\ last' = [outcome |-> IF node.ok THEN "parsed" ELSE "error",
                     err |-> ParseOutcome(node).err, data |-> IntZero]
    /\ UNCHANGED <<argc, overflow_checks, stdin_eof, lines, last_ptr, prog, scope,
                   exec_ptr, in_block, out, exit_code, txn, pending, absorbed,
                   produced, returned, called>>

SpecParse == InitParse /\ [][ParseLines]_vars

\* lines for the matching of blocks: the three block heads, their ends, an
\* `end` with no field, one with a field too many, a statement
BlockAlphabet ==
    { "if x then", "while x do", "function f as", "end if", "end while",
      "end function", "end", "end if if", "let x = 1" }

\* the State execute_program constructs for a file of such lines
InitBlock ==
    /\ pc = "parse"
    /\ argc = 2
    /\ overflow_checks = "unobserved"
    /\ stdin_eof = FALSE
    /\ lines \in SeqsUpTo(BlockAlphabet, MaxParseLines)
    /\ ptr = 0
    /\ last_ptr = InitialReplState.last_ptr
    /\ prog = EmptyProgram
    /\ main_stmts = <<>>
    /\ scope = EmptyMap
    /\ exec_ptr = InitialReplState.exec_ptr
    /\ in_block = FALSE
    /\ out = <<>>
    /\ exit_code = <<>>
    /\ last = [outcome |-> "none", err |-> NoError, data |-> IntZero]
    /\ txn = InitialReplState
    /\ pending = <<>>
    /\ absorbed = <<>>
    /\ produced = {}
    /\ returned = {}
    /\ called = {}

SpecBlock == InitBlock /\ [][ParseLines]_vars

(***************************************************************************)
(* One statement executed in a scope, with a registry of functions         *)
(***************************************************************************)
\* the functions: with parameters, reading a name they do not bind,
\* assigning and printing, without statements, without a return, with a
\* return before the last statement and inside a block, failing before a
\* last statement that is no return
ExecSource ==
    << "function id p as", "return p", "end function",
       "function two p q as", "return - p q", "end function",
       "function g as", "return 7", "end function",
       "function peek as", "return x", "end function",
       "function setx as", "let x = 5", "print x", "return + x 1", "end function",
       "function empty as", "end function",
       "function noret as", "let z = 1", "print z", "end function",
       "function midret as", "let z = 1", "return z", "print z", "return 2",
       "end function",
       "function ifret as", "if 1 then", "return 1", "end if", "return 2",
       "end function",
       "function skipret as", "if 0 then", "return 1", "end if", "return 2",
       "end function",
       "function whileret as", "while 1 do", "return 1", "end while", "return 2",
       "end function",
       "function failing as", "print nosuch", "let z = 1", "end function",
       "function tail as", "return 1 2", "end function" >>

ExecProgram ==
    Call("build_program",
         <<Call("parse_node", <<ExecSource, 0, "">>).stmts, 1, EmptyProgram>>).prog

\* the scopes: empty, with x, and with x and a name that is also a
\* function (the REPL assigns g and defines function g afterwards)
ExecScopes ==
    { EmptyMap, ("x" :> IntOf(1)), ("x" :> IntOf(1)) @@ ("g" :> IntOf(2)) }

\* the statements, each the lines of its text
ExecTexts ==
    { <<"let r = 3">>, <<"let r = -3">>, <<"let r = +3">>, <<"let r = x">>,
      <<"let r = g">>, <<"let r = nosuch">>, <<"let r = x1">>, <<"let r = two">>,
      <<"let r = two 5 3">>, <<"let r = + two 5 3 1">>, <<"let r = id x">>,
      <<"let r = id id 4">>, <<"let r = peek">>, <<"let r = setx">>,
      <<"let x = setx">>, <<"let if = scan">>, <<"let two = scan">>,
      <<"let g = id 1">>, <<"let r = scan">>, <<"let r = empty">>,
      <<"let r = noret">>, <<"let r = midret">>, <<"let r = ifret">>,
      <<"let r = skipret">>, <<"let r = whileret">>, <<"let r = failing">>,
      <<"let r = tail">>, <<"let r = 1 2">>, <<"let r = 1 2 3">>,
      <<"let r = + 1">>, <<"let r = +">>, <<"let r = + 1 2 3">>,
      <<"let r = not 0 1">>, <<"let r = scan 1">>, <<"let r = + 1 scan">>,
      <<"let r = + nosuch">>, <<"let r = 1 nosuch">>,
      <<"if nosuch then", "let r = 1", "end if">>,
      <<"while nosuch do", "let r = 1", "end while">>,
      <<"if x then", "let r = nosuch", "end if">>,
      <<"print x nosuch">> }

InitExec ==
    /\ pc = "exec"
    /\ argc = 1
    /\ overflow_checks = "unobserved"
    /\ stdin_eof = FALSE
    /\ lines = InitialReplState.lines
    /\ ptr = InitialReplState.ptr
    /\ last_ptr = InitialReplState.last_ptr
    /\ prog = ExecProgram
    /\ main_stmts = InitialReplState.main_stmts
    /\ scope \in ExecScopes
    /\ exec_ptr = InitialReplState.exec_ptr
    /\ in_block = FALSE
    /\ out = <<>>
    /\ exit_code = <<>>
    /\ last = [outcome |-> "none", err |-> NoError, data |-> IntZero]
    /\ txn = InitialReplState
    /\ pending = <<>>
    /\ absorbed = <<>>
    /\ produced = {}
    /\ returned = {}
    /\ called = {}

\* exec_statement of the statement of a text, with one line waiting on
\* standard input: lines and main_stmts hold the text and the statement,
\* txn the state before
ExecLine ==
    /\ pc = "exec"
    /\ \E text \in ExecTexts, reply \in ScanReplies :
         \E node \in {Call("parse_node", <<text, 0, "">>)} :
         \E r \in {Call("exec_statement", <<[prog |-> prog, scope |-> scope],
                                           node.stmts[1], NewIO(<<reply>>, FALSE)>>)} :
             /\ ErrorOf(r).kind \notin {"Starved", "Fuel"}
             /\ pc' = "executed"
             /\ lines' = text
             /\ main_stmts' = node.stmts
             /\ txn' = ReplState
             /\ stdin_eof' = r.io.eof
             /\ scope' = IF r.ok THEN r.scope ELSE scope
             /\ out' = r.io.out
             /\ last' = [outcome |-> IF r.ok THEN "executed" ELSE "error",
                         err |-> ErrorOf(r), data |-> IntZero]
             /\ produced' = r.io.produced
             /\ returned' = r.io.returned
             /\ called' = r.io.called
             /\ UNCHANGED <<argc, overflow_checks, ptr, last_ptr, prog, exec_ptr,
                            in_block, exit_code, pending, absorbed>>

SpecExec == InitExec /\ [][ExecLine]_vars

(***************************************************************************)
(* The run of one file                                                     *)
(***************************************************************************)
\* files whose top-level block is refused: no main, a function defined
\* twice, a function named by a reserved word, a statement after the
\* functions, a return at the top
FileNoMain == File("function f as\n print\n return 1\nend function\n")

FileDupFunc ==
    File("function main as\n let a = scan\n return a\nend function\nfunction main as\n return 2\nend function\n")

FileReservedFunc ==
    File("function main as\n let a = 1\n print a\n return a\nend function\nfunction if as\n return 2\nend function\n")

FileWildAfter ==
    File("function main as\n let a = 1\n print a\n return a\nend function\nprint\nfunction f as\nend function\n")

FileWildRet == File("return 1\n")

\* main calls a function defined after it
FileForward ==
    File("function main as\n return later 3\nend function\nfunction later p as\n return + p 4\nend function\n")

ProgramFiles ==
    { FileReturnScan, FileDivRem, FileSum, FileNoRet, FileCallNoRet, FileMidRet,
      FileUnclosed, FileWild, FileOverflow, FileNoMain, FileDupFunc,
      FileReservedFunc, FileWildAfter, FileWildRet, FileForward }

InitFile ==
    /\ pc = "file"
    /\ argc = 2
    /\ overflow_checks = "unobserved"
    /\ stdin_eof = FALSE
    /\ \E file \in ProgramFiles :
         /\ pending = <<file.content>>
         /\ lines = Split(file.content, "\n")
    /\ ptr = InitialReplState.ptr
    /\ last_ptr = InitialReplState.last_ptr
    /\ prog = EmptyProgram
    /\ main_stmts = <<>>
    /\ scope = EmptyMap
    /\ exec_ptr = InitialReplState.exec_ptr
    /\ in_block = FALSE
    /\ out = <<>>
    /\ exit_code = <<>>
    /\ last = [outcome |-> "none", err |-> NoError, data |-> IntZero]
    /\ txn = InitialReplState
    /\ absorbed = <<>>
    /\ produced = {}
    /\ returned = {}
    /\ called = {}

\* main_run_file of the file whose content is pending[1], and
\* process::exit with its result
RunFile ==
    /\ pc = "file"
    /\ \E feed \in SeqsUpTo(ScanReplies, MaxScans) :
         \E r0 \in {Call("main_run_file", <<File(pending[1]), NewIO(feed, FALSE)>>)} :
             \E checks \in Profiles(r0.io.ovf) :
             \E r \in {IF checks
                       THEN Call("main_run_file", <<File(pending[1]), NewIO(feed, TRUE)>>)
                       ELSE r0} :
                   /\ r.outcome \notin {"Starved", "Fuel"}
                   /\ r.io.stdin = <<>>
                   /\ pc' = IF r.outcome = "Panic" THEN "panicked" ELSE "exited"
                   /\ exit_code' = IF r.outcome = "Panic" THEN <<>> ELSE <<r.code>>
                   /\ overflow_checks' = ProfileAfter(r0.io.ovf, checks)
                   /\ stdin_eof' = r.io.eof
                   /\ out' = r.io.out
                   /\ last' = [outcome |-> r.outcome, err |-> r.err, data |-> r.data]
                   /\ produced' = r.io.produced
                   /\ returned' = r.io.returned
                   /\ called' = r.io.called
                   /\ UNCHANGED <<argc, lines, ptr, last_ptr, prog, main_stmts,
                                  scope, exec_ptr, in_block, txn, pending, absorbed>>

SpecFile == InitFile /\ [][RunFile]_vars

(***************************************************************************)
(* A session of the REPL in which functions are defined twice, under the   *)
(* name of a variable and under a reserved word, and statements fail       *)
(***************************************************************************)
SessionInputs ==
    { Read("let g = 1\n"), Read("function g as\n"), Read("function if as\n"),
      Read("end function\n"), Read("print y\n") }

MaxSessionLines == 6

\* main_interactive_interpreter at its first prompt
InitSession ==
    /\ pc = "session"
    /\ argc = 1
    /\ overflow_checks = "unobserved"
    /\ stdin_eof = FALSE
    /\ lines = InitialReplState.lines
    /\ ptr = InitialReplState.ptr
    /\ last_ptr = InitialReplState.last_ptr
    /\ prog = InitialReplState.prog
    /\ main_stmts = InitialReplState.main_stmts
    /\ scope = InitialReplState.scope
    /\ exec_ptr = InitialReplState.exec_ptr
    /\ in_block = FALSE
    /\ out = <<[kind |-> "banner"]>>
    /\ exit_code = <<>>
    /\ last = [outcome |-> "none", err |-> NoError, data |-> IntZero]
    /\ txn = InitialReplState
    /\ pending = <<>>
    /\ absorbed = <<>>
    /\ produced = {}
    /\ returned = {}
    /\ called = {}

\* one iteration of the REPL's loop on a line of the session
Session ==
    /\ pc = "session"
    /\ Len(lines) < MaxSessionLines
    /\ \E feed \in {<<i>> : i \in SessionInputs} :
         \E r \in {Call("repl_loop", <<ReplState, in_block, NewIO(feed, FALSE)>>)} :
             LET began == IF in_block THEN txn ELSE ReplState
                 fed == Trim(feed[1].text)
                 all == IF in_block THEN Append(pending, fed) ELSE <<fed>>
             IN  /\ r.outcome \in {"absorbed", "unclosed", "error"}
                 /\ r.io.stdin = <<>>
                 /\ pc' = "session"
                 /\ stdin_eof' = r.io.eof
                 /\ lines' = r.st.lines
                 /\ ptr' = r.st.ptr
                 /\ last_ptr' = r.st.last_ptr
                 /\ prog' = r.st.prog
                 /\ main_stmts' = r.st.main_stmts
                 /\ scope' = r.st.scope
                 /\ exec_ptr' = r.st.exec_ptr
                 /\ in_block' = r.in_block
                 /\ out' = r.io.out
                 /\ last' = [outcome |-> r.outcome, err |-> r.err, data |-> IntZero]
                 /\ txn' = began
                 /\ pending' = all
                 /\ absorbed' = IF r.outcome = "absorbed"
                                THEN absorbed \o all ELSE absorbed
                 /\ produced' = r.io.produced
                 /\ returned' = r.io.returned
                 /\ called' = r.io.called
                 /\ UNCHANGED <<argc, overflow_checks, exit_code>>

SpecSession == InitSession /\ [][Session]_vars

(***************************************************************************)
(* Properties                                                              *)
(***************************************************************************)
InRepl == pc = "repl"

\* the last step was an iteration of the REPL that gave its input to
\* execute_block
Decided == InRepl /\ last.outcome \in {"absorbed", "unclosed", "error"}

NoErrorMessage(o) == \A i \in 1..Len(o) : o[i].kind # "error"

\* the lines from the parser's cursor on are blank: the next input is
\* parsed starting at its own line
ParsesOwnLine(st) == \A i \in (st.ptr + 1)..Len(st.lines) : st.lines[i] = ""

\* C1: REPL atomicity.  After an input that ends in an error other than
\* UnclosedBlock the whole state of the REPL (line log, ptr, last_safe_ptr,
\* registry, statement buffer, exec_ptr, scope, prompt mode) is the state
\* the REPL had at the prompt before the failed input, as if the input had
\* never been entered.
C1_ReplAtomicity ==
    (InRepl /\ last.outcome = "error") => (ReplState = txn /\ ~in_block)

\* C2: after an input that ends in an error other than UnclosedBlock the
\* line log holds only the sentinel and the lines of the absorbed inputs,
\* and the next input is parsed starting at its own line, in every
\* reachable state.
C2_NoTraceInLines ==
    (InRepl /\ last.outcome = "error")
        => (lines = <<"">> \o absorbed /\ ParsesOwnLine(ReplState))

FuncDefLines == <<"function g as", "return 1", "end function">>

IsPrefix(p, q) == Len(p) <= Len(q) /\ p = SubSeq(q, 1, Len(p))

\* the pending input is the definition of g, or a beginning of it, fed
\* line by line from a `>>> ` prompt at which the parser was at the end of
\* the line log and g was not yet a function
FeedingFuncDef ==
    /\ Decided
    /\ pending # <<>>
    /\ IsPrefix(pending, FuncDefLines)
    /\ ParsesOwnLine(txn)
    /\ "g" \notin DOMAIN txn.prog.funcs

\* C3 (state part): after an input the mode is BUFFERING if and only if
\* execute_block ended in UnclosedBlock; and a well-formed function
\* definition fed one line at a time keeps the REPL in BUFFERING with no
\* error message until `end function`, which registers the function and
\* returns to READY.
ModeAfterInput ==
    /\ Decided => (in_block <=> last.err = UnclosedBlock)
    /\ FeedingFuncDef =>
         IF pending = FuncDefLines
         THEN /\ last.outcome = "absorbed"
              /\ ~in_block
              /\ "g" \in DOMAIN prog.funcs
              /\ NoErrorMessage(out)
         ELSE /\ last.outcome = "unclosed"
              /\ in_block
              /\ "g" \notin DOMAIN prog.funcs
              /\ NoErrorMessage(out)

C4_ScopeChangesOnlyOnSuccess ==
    [][(InRepl /\ last'.outcome \in {"unclosed", "error"})
          => /\ scope' = scope
             /\ exec_ptr' = exec_ptr
             /\ Len(main_stmts') = exec_ptr']_vars

\* an input failed after its first statements had been executed: 2 was
\* produced for x, and x is still the 1 an earlier input committed
C4_Witness ==
    /\ InRepl
    /\ last.outcome = "error"
    /\ last.err.kind = "MisplacedRet"
    /\ IntOf(2) \in produced
    /\ "x" \in DOMAIN scope
    /\ scope["x"] = IntOf(1)

\* C5: an iteration whose parse ends in UnclosedBlock appends the input
\* line to lines, restores ptr to last_ptr, leaves the registry, the
\* statement buffer, the scope, exec_ptr and last_ptr unchanged and emits
\* no error message.
C5_UnclosedBlockFrame ==
    [][(InRepl /\ last'.err = UnclosedBlock)
          => /\ lines' = Append(lines, pending'[Len(pending')])
             /\ ptr' = last_ptr'
             /\ UNCHANGED <<prog, main_stmts, scope, exec_ptr, last_ptr>>
             /\ NoErrorMessage(out')]_vars

\* the second line of a block has been buffered after earlier inputs were
\* absorbed
C5_Witness ==
    /\ InRepl
    /\ last.err = UnclosedBlock
    /\ Len(pending) = 2
    /\ "x" \in DOMAIN scope
    /\ ptr = last_ptr
    /\ last_ptr > 0

\* C6: once a read of the REPL has reported the end of standard input, the
\* loop has exited.
C6_EofTerminates == (argc <= 1 /\ stdin_eof) => pc = "exited"

\* an exit code (an i32, a number of TLC) as an integer
IntOfCode(n) ==
    IF n < 0 THEN IntSub(IntNeg(IntOf(0 - (n + 1))), IntOf(1)) ELSE IntOf(n)

\* x and y differ by a multiple of 2^32
Congruent32(x, y) == ModPow256(IntSub(x, y), 4) = <<>>

FileReturned == pc = "exited" /\ last.outcome = "returned"

\* C7: for every successful file execution the exit code is congruent to
\* the value main returned modulo 2^32.
C7_ExitCodeLow32 ==
    FileReturned => /\ Len(exit_code) = 1
                    /\ Congruent32(last.data, IntOfCode(exit_code[1]))

\* main returned a value of more than 32 bits, and the exit code is another
\* number
C7_Witness ==
    /\ FileReturned
    /\ IntCmp(last.data, MkInt(FALSE, NatPow256(4))) > 0
    /\ IntOfCode(exit_code[1]) # last.data

\* v > 0 implies v < 2^48
ValueOK(v) == IntIsPos(v) => IntCmp(v, VARIABLE_LIMIT) < 0

\* the exact result x of an operation on Variables, when it is negative and
\* an i128, is the value of v in the scope
NegativeKept(v, x) ==
    (v \in DOMAIN scope /\ x.neg /\ InBytes(x, 16)) => scope[v] = x

\* C8: every Variable the evaluator produces and every Variable in a scope
\* satisfies v > 0 => v < 2^48, and a negative result of + - * is kept as it
\* is.
C8_ValueCeiling ==
    /\ \A v \in produced : ValueOK(v)
    /\ \A k \in DOMAIN scope : ValueOK(scope[k])
    /\ pc = "done" =>
         /\ NegativeKept("s", IntAdd(scope["a"], scope["b"]))
         /\ NegativeKept("d", IntSub(scope["a"], scope["b"]))
         /\ NegativeKept("m", IntMul(scope["a"], scope["b"]))

\* a sum that exceeds 2^48 has been computed and stored
C8_Witness ==
    /\ pc = "done"
    /\ "s" \in DOMAIN scope
    /\ IntCmp(IntAdd(scope["a"], scope["b"]), VARIABLE_LIMIT) >= 0

\* the remainder and the quotient of the Euclidean-like rule, in unbounded
\* integers
RuleRem(a, b) ==
    IF b = IntZero THEN IntZero
    ELSE IF IntIsPos(a) THEN Call("IntTruncRem", <<a, b>>)
    ELSE Call("IntTruncRem",
              <<IntSub(IntAbs(b), Call("IntTruncRem", <<IntNeg(a), IntAbs(b)>>)),
                IntAbs(b)>>)

RuleQuot(a, b, rem) ==
    IF b = IntZero THEN IntZero
    ELSE Call("IntTruncDiv", <<IntSub(a, rem), IntAbs(b)>>)

\* the statement `let r = % a b` or `let q = / a b` has been executed
RemDone == pc = "done" /\ "r" \in DOMAIN scope
QuotDone == pc = "done" /\ "q" \in DOMAIN scope

I128Min == IntNeg(MkInt(FALSE, NatMulSmall(NatPow256(15), 128)))

\* no operation of i128 in % a b and / a b overflows
NoOverflowIn(a, b) ==
    /\ b # I128Min
    /\ IntCmp(a, IntAdd(I128Min, VARIABLE_LIMIT)) >= 0

BodyEndsInRet(body) ==
    /\ Len(body) >= 1
    /\ body[Len(body)].kind = "Ret"
    /\ \A i \in 1..(Len(body) - 1) : body[i].kind \notin {"Ret", "Func"}

\* C10 as the specification states it: every function in the registry has
\* a body that ends in its only Ret.
C10_EveryParsedFunction ==
    \A f \in DOMAIN prog.funcs : BodyEndsInRet(prog.funcs[f].root)

\* C10: every function whose call has returned a value has a body that
\* ends in its only Ret and holds no Func.
C10_EveryReturnedFunction == \A body \in returned : BodyEndsInRet(body)

\* a function of more than one statement has returned from a call of a
\* file's execution
C10_Witness ==
    /\ pc = "exited"
    /\ \E body \in returned : Len(body) > 1

\* C15: started with two or more arguments the process reports a fatal
\* error, starts neither the REPL nor a file, and exits with a non-zero
\* code.
C15_TooManyArgsFail ==
    (argc > 2 /\ pc # "start")
        => /\ pc = "exited"
           /\ out = <<[kind |-> "fatal"]>>
           /\ Len(exit_code) = 1
           /\ exit_code[1] # 0

\* all statements of a block, those of the blocks inside it included
RECURSIVE AllStmts(_)
AllStmts(stmts) ==
    UNION {{stmts[i]} \cup (IF stmts[i].kind \in {"Cond", "Loop", "Func"}
                             THEN AllStmts(stmts[i].child) ELSE {})
           : i \in 1..Len(stmts)}

\* the keyword a statement of each kind begins with
HeadKeyword(kind) ==
    CASE kind = "Assign" -> "let"
      [] kind = "Cond"   -> "if"
      [] kind = "Loop"   -> "while"
      [] kind = "Print"  -> "print"
      [] kind = "Ret"    -> "return"
      [] kind = "Func"   -> "function"

\* the text of a line before its first '#'
Uncommented(line) == SubSeq(line, 1, FindChar(line, "#", 1) - 1)

\* line n (from 0) of the array exists and its first field is word
LineBeginsWith(n, word) ==
    /\ n < Len(lines)
    /\ \E i \in 1..Len(lines[n + 1]) :
          /\ SubSeq(lines[n + 1], 1, i - 1) \in {"", " ", "  ", "   "}
          /\ SubSeq(lines[n + 1], i, i + Len(word) - 1) = word

\* line n (from 0) of the array exists and has character c outside comments
LineHasChar(n, c) ==
    /\ n < Len(lines)
    /\ FindChar(Uncommented(lines[n + 1]), c, 1) <= Len(Uncommented(lines[n + 1]))

Parsed == pc = "parsed"

\* C11: line attribution.  Every statement the parser returns records the
\* line of its own head keyword, and an error about a character that is
\* not allowed carries the line that contains the character.
C11_LineAttribution ==
    Parsed =>
        /\ \A st \in AllStmts(main_stmts) : LineBeginsWith(st.line, HeadKeyword(st.kind))
        /\ last.err.kind = "IllegalChar" => LineHasChar(last.err.line, last.err.value)

\* the parser has returned a statement of the kind for an array that holds
\* the line
ParsedLineInto(line, kind) ==
    /\ Parsed
    /\ last.outcome = "parsed"
    /\ \E i \in 1..Len(lines) : lines[i] = line
    /\ \E st \in AllStmts(main_stmts) : st.kind = kind

\* the line array with all text from the first '#' of each line removed
WithoutComments == [i \in 1..Len(lines) |-> Uncommented(lines[i])]

\* C16: comment idempotence.  Parsing the line array with the comments
\* removed gives the outcome of parsing the array itself: the same
\* statements with the same lines, or the same error.
C16_CommentIdempotence ==
    Parsed => ParseOutcome(Call("parse_node", <<WithoutComments, 0, "">>))
                  = [stmts |-> main_stmts, err |-> last.err]

\* a block whose head carries a comment has been parsed
C16_Witness == ParsedLineInto("if x then # c", "Cond")

\* the characters s[i..] appended to acc, every run of spaces as one space
\* (gap: a space is due before the next character) and none at either end
RECURSIVE CollapseFrom(_, _, _, _)
CollapseFrom(s, i, acc, gap) ==
    IF i > Len(s) THEN acc
    ELSE IF Char(s, i) = " " THEN CollapseFrom(s, i + 1, acc, acc # "")
    ELSE CollapseFrom(s, i + 1, acc \o (IF gap THEN " " ELSE "") \o Char(s, i),
                      FALSE)

\* the line array with the spaces of each line collapsed
Collapsed == [i \in 1..Len(lines) |-> CollapseFrom(lines[i], 1, "", FALSE)]

\* C17: whitespace idempotence.  Parsing the line array with every run of
\* spaces collapsed to one space and the spaces at the ends of the lines
\* dropped gives the same statements (or the same error); no statement has
\* an empty token, and a line without fields gives no statement.
C17_WhitespaceIdempotence ==
    Parsed =>
        /\ ParseOutcome(Call("parse_node", <<Collapsed, 0, "">>))
               = [stmts |-> main_stmts, err |-> last.err]
        /\ \A st \in AllStmts(main_stmts) :
              /\ st.kind \in {"Assign", "Cond", "Loop", "Ret"}
                    => \A i \in 1..Len(st.expr) : st.expr[i] # ""
              /\ st.kind = "Print" => \A i \in 1..Len(st.vars) : st.vars[i] # ""
        /\ (\A i \in 1..Len(lines) : lines[i] \in {"#", "  "})
              => (main_stmts = <<>> /\ last.outcome = "parsed")

\* a function whose end line has spaces before, between and after its
\* fields has been parsed
C17_Witness == ParsedLineInto(" end  function ", "Func")

Executed == pc = "executed"

\* the statement that was executed
TheStmt == main_stmts[1]

\* the first n parameters bound to the arguments, a later parameter of a
\* name replacing an earlier one
RECURSIVE Bound(_, _, _)
Bound(params, args, n) ==
    IF n = 0 THEN EmptyMap
    ELSE (params[n] :> args[n]) @@ Bound(params, args, n - 1)

\* C12: every call runs in a scope that starts as exactly the parameters
\* bound to the arguments; a function that reads a name it does not bind
\* fails with UndeclaredToken whatever the caller's scope holds; and after
\* the statement the caller's scope is what it was, but for the target of
\* an assignment that succeeded.
C12_FreshScope ==
    Executed =>
        /\ \A fr \in called :
              fr.scope = Bound(prog.funcs[fr.token].params, fr.args, Len(fr.args))
        /\ lines = <<"let r = peek">>
              => (last.err.kind = "UndeclaredToken" /\ last.err.value = "x")
        /\ IF last.outcome = "executed" /\ TheStmt.kind = "Assign"
           THEN /\ TheStmt.var \in DOMAIN scope
                /\ scope = Insert(txn.scope, TheStmt.var, scope[TheStmt.var])
           ELSE scope = txn.scope

\* a function that assigns 5 to its own x was called where x is 1, and the
\* caller's x is still 1
C12_Witness ==
    /\ Executed
    /\ lines = <<"let r = setx">>
    /\ "x" \in DOMAIN txn.scope
    /\ scope["x"] = IntOf(1)
    /\ scope["r"] = IntOf(6)

\* the target of the assignment that was executed is a reserved word or the
\* name of a function
AssignedReserved ==
    /\ Executed
    /\ TheStmt.kind = "Assign"
    /\ is_reserved_kw(TheStmt.var) \/ TheStmt.var \in DOMAIN prog.funcs

\* C13: an assignment whose target is a reserved word or the name of a
\* registered function fails with DuplicateToken at the assignment's line
\* before the expression is evaluated: nothing is read from standard
\* input, no function is called, no value is produced, and the scope is
\* what it was.
C13_AssignGuardFirst ==
    AssignedReserved =>
        /\ last.err = Err2("DuplicateToken", TheStmt.line, TheStmt.var)
        /\ LineBeginsWith(TheStmt.line, "let")
        /\ out = <<>>
        /\ ~stdin_eof
        /\ called = {}
        /\ produced = {}
        /\ scope = txn.scope

\* assignments to `if` and to a function, with a scan and with a call on
\* the right, have been executed
C13_Witness ==
    /\ AssignedReserved
    /\ lines \in {<<"let if = scan">>, <<"let g = id 1">>}
    /\ last.outcome = "error"

\* what the validation of a top-level block comes to, statement by
\* statement from the i-th: the first statement that is no function
\* definition, the first function whose name is a reserved word or in
\* names, or the names of all functions
RECURSIVE Validated(_, _, _)
Validated(stmts, i, names) ==
    IF i > Len(stmts) THEN [kind |-> "None", names |-> names]
    ELSE IF stmts[i].kind # "Func" THEN [kind |-> "WildStatement"]
    ELSE IF is_reserved_kw(stmts[i].name) \/ stmts[i].name \in names
    THEN [kind |-> "DuplicateToken", value |-> stmts[i].name]
    ELSE Validated(stmts, i + 1, names \cup {stmts[i].name})

\* the run ended with exit code 1 and an error report, and no statement
\* of any function was executed: no call, no value, no read, no print
RefusedUnrun ==
    /\ exit_code = <<1>>
    /\ called = {}
    /\ produced = {}
    /\ ~stdin_eof
    /\ Len(out) = 1
    /\ out[1].kind = "error"

FileExited == pc = "exited" /\ Len(pending) = 1

\* C14: in file mode the top-level block is validated before anything
\* runs.  A top-level statement that is no function definition gives
\* WildStatement, a function with a reserved or registered name gives
\* DuplicateToken, a program without main gives UndeclaredToken("main"),
\* each without any statement executed; and a function can call one that
\* is defined after it.
C14_ValidatedBeforeRun ==
    FileExited =>
        \A node \in {Call("parse_node", <<lines, 0, "">>)} :
            /\ node.ok =>
                 LET v == Validated(node.stmts, 1, {})
                 IN  /\ v.kind = "WildStatement"
                          => (last.err.kind = "WildStatement" /\ RefusedUnrun)
                     /\ v.kind = "DuplicateToken"
                          => /\ last.err.kind = "DuplicateToken"
                             /\ last.err.value = v.value
                             /\ RefusedUnrun
                     /\ (v.kind = "None" /\ "main" \notin v.names)
                          => /\ last.err = Err2("UndeclaredToken", 0, "main")
                             /\ RefusedUnrun
            /\ pending = <<FileForward.content>>
                 => (last.outcome = "returned" /\ last.data = IntOf(7))

\* the file that defines main twice, its first main reading standard
\* input, was refused
C14_Witness ==
    /\ FileExited
    /\ pending = <<FileDupFunc.content>>
    /\ last.err.kind = "DuplicateToken"

\* the statement executed is `let r = tok`, tok no operator keyword
AssignedName ==
    /\ Executed
    /\ TheStmt.kind = "Assign"
    /\ TheStmt.var = "r"
    /\ Len(TheStmt.expr) = 1
    /\ ~IsBuiltin(TheStmt.expr[1])

\* r has been assigned value v
Assigned(v) ==
    /\ last.outcome = "executed"
    /\ "r" \in DOMAIN scope
    /\ scope["r"] = v

\* tok has a character that no identifier has
NoIdentifier(tok) ==
    \E i \in 1..Len(tok) : ~(IsLower(Char(tok, i)) \/ Char(tok, i) = "_")

\* what `let r = tok` comes to by the order of resolution: a literal, else
\* the value in the scope, else a call of the function (which, alone in
\* the expression, lacks its operands when it has parameters), else an
\* error: IllegalChar when validating is set and tok is no identifier,
\* UndeclaredToken otherwise
ResolvedInOrder(tok, validating) ==
    IF parse_i128(tok).ok
    THEN Assigned(Variable_from(parse_i128(tok).val)) /\ called = {}
    ELSE IF validating /\ NoIdentifier(tok)
    THEN last.err.kind = "IllegalChar" /\ last.err.line = TheStmt.line
    ELSE IF tok \in DOMAIN txn.scope
    THEN Assigned(txn.scope[tok]) /\ called = {}
    ELSE IF tok \in DOMAIN prog.funcs
    THEN IF Len(prog.funcs[tok].params) = 0
         THEN \E fr \in called : fr.token = tok /\ fr.args = <<>>
         ELSE last.err = Err1("BadExpression", TheStmt.line) /\ called = {}
    ELSE last.err = Err2("UndeclaredToken", TheStmt.line, tok)

\* a function takes exactly as many sub-expressions as it has parameters:
\* `+ two 5 3 1` is (5 - 3) + 1 and `id id 4` is 4
ArityConsumed ==
    /\ (Executed /\ lines = <<"let r = + two 5 3 1">>)
          => /\ Assigned(IntOf(3))
             /\ \E fr \in called : fr.token = "two" /\ fr.args = <<IntOf(5), IntOf(3)>>
    /\ (Executed /\ lines = <<"let r = id id 4">>) => Assigned(IntOf(4))

\* C18 as the specification states it: a token that is no operator keyword
\* is a literal, else the value bound in the scope (even when a function
\* has the name), else a call of the function with as many operands as it
\* has parameters, else UndeclaredToken.
C18_ResolutionOrder ==
    /\ AssignedName => ResolvedInOrder(TheStmt.expr[1], FALSE)
    /\ ArityConsumed

\* C18: as above, but a token that is no literal and has a character that
\* no identifier has (a digit, an operator character) is IllegalChar, before
\* the scope and the functions are looked at.
C18_ResolutionValidated ==
    /\ AssignedName => ResolvedInOrder(TheStmt.expr[1], TRUE)
    /\ ArityConsumed

\* g is a function and is bound to 2 in the scope; `let r = g` has made r 2
C18_Witness ==
    /\ AssignedName
    /\ TheStmt.expr = <<"g">>
    /\ "g" \in DOMAIN prog.funcs
    /\ "g" \in DOMAIN txn.scope
    /\ Assigned(IntOf(2))

\* the statement executed is `let r = f`, f a function without parameters
\* that the scope does not hide
CalledAlone ==
    /\ AssignedName
    /\ ~parse_i128(TheStmt.expr[1]).ok
    /\ TheStmt.expr[1] \notin DOMAIN txn.scope
    /\ TheStmt.expr[1] \in DOMAIN prog.funcs
    /\ prog.funcs[TheStmt.expr[1]].params = <<>>

Misplaced == last.outcome = "error" /\ last.err.kind = "MisplacedRet"

Operands(tok) ==
    IF IsBuiltin(tok) THEN BuiltinCount(tok)
    ELSE IF parse_i128(tok).ok \/ tok \in DOMAIN txn.scope THEN 0
    ELSE IF tok \in DOMAIN prog.funcs THEN Len(prog.funcs[tok].params)
    ELSE 0

\* SubExprEnd(expr, i, k): the position behind k consecutive prefix
\* sub-expressions of which the first begins at position i, or 0 when the
\* token list ends before they do
RECURSIVE SubExprEnd(_, _, _)
SubExprEnd(expr, i, k) ==
    IF k = 0 THEN i
    ELSE IF i > Len(expr) THEN 0
    ELSE LET e == SubExprEnd(expr, i + 1, Operands(expr[i]))
         IN  IF e = 0 THEN 0 ELSE SubExprEnd(expr, e, k - 1)

\* the token list ends while an operator or a function lacks operands
Overrun == SubExprEnd(TheStmt.expr, 1, 1) = 0

\* the number of tokens behind the top-level sub-expression
LeftOver ==
    IF Overrun THEN 0 ELSE Len(TheStmt.expr) + 1 - SubExprEnd(TheStmt.expr, 1, 1)

\* r is assigned an expression whose sub-expression is made of literals,
\* variables of the scope and operators that cannot fail on them
AssignedPlain ==
    /\ Executed
    /\ TheStmt.kind = "Assign"
    /\ TheStmt.var = "r"
    /\ \A i \in 1..(Len(TheStmt.expr) - LeftOver) :
          \/ parse_i128(TheStmt.expr[i]).ok
          \/ TheStmt.expr[i] \in DOMAIN txn.scope
          \/ IsBuiltin(TheStmt.expr[i]) /\ TheStmt.expr[i] \notin {"scan", "/", "%"}

BadExpressionHere == last.outcome = "error" /\ last.err = Err1("BadExpression", TheStmt.line)

\* BadExpressionWhen(n): an expression of literals, variables and
\* operators fails with BadExpression exactly when the token list ends
\* before the sub-expression does or at least n tokens stay behind it, and
\* is assigned otherwise; no expression of any kind is assigned with
\* a token left or an operand lacking
BadExpressionWhen(n) ==
    /\ AssignedPlain =>
          /\ BadExpressionHere <=> (Overrun \/ LeftOver >= n)
          /\ ~BadExpressionHere => last.outcome = "executed" /\ "r" \in DOMAIN scope
    /\ (Executed /\ TheStmt.kind = "Assign" /\ last.outcome = "executed")
          => ~Overrun /\ LeftOver < n

\* C20 as the specification states it: evaluating a statement's expression
\* consumes one prefix sub-expression and fails with BadExpression exactly
\* when more than one token stays behind it or the token list ends while
\* an operator or a function lacks operands.
C20_MoreThanOneLeft == BadExpressionWhen(2)

\* C20: evaluating a statement's expression consumes one prefix
\* sub-expression and fails with BadExpression exactly when at least one
\* token stays behind it or the token list ends while an operator or a
\* function lacks operands.
C20_AnyLeft == BadExpressionWhen(1)

\* one token stays behind a complete sub-expression and the evaluation
\* has failed with BadExpression
C20_Witness ==
    /\ AssignedPlain
    /\ ~Overrun
    /\ LeftOver = 1
    /\ BadExpressionHere

\* a line without its comment, its spaces collapsed
Normal(line) == CollapseFrom(Uncommented(line), 1, "", FALSE)

\* the text begins with the prefix
StartsWith(text, prefix) ==
    Len(text) >= Len(prefix) /\ SubSeq(text, 1, Len(prefix)) = prefix

\* the keyword of the block a line opens, "" when it opens none
Opens(line) ==
    IF StartsWith(Normal(line), "if ") THEN "if"
    ELSE IF StartsWith(Normal(line), "while ") THEN "while"
    ELSE IF StartsWith(Normal(line), "function ") THEN "function"
    ELSE ""

\* the first field of the line is `end`
IsEndLine(line) == Normal(line) = "end" \/ StartsWith(Normal(line), "end ")

\* BlockScan(i, open): what the lines from line i on (counted from 1) come
\* to when the blocks of the keywords in open, the innermost last, are open
RECURSIVE BlockScan(_, _)
BlockScan(i, open) ==
    IF i > Len(lines)
    THEN IF open = <<>> THEN NoError ELSE UnclosedBlock
    ELSE IF IsEndLine(lines[i])
    THEN IF open # <<>> /\ Normal(lines[i]) = "end " \o open[Len(open)]
         THEN BlockScan(i + 1, SubSeq(open, 1, Len(open) - 1))
         ELSE Err1("MalformedEnd", i - 1)
    ELSE IF Opens(lines[i]) # ""
    THEN BlockScan(i + 1, Append(open, Opens(lines[i])))
    ELSE BlockScan(i + 1, open)

\* every line is empty, an `end` line or a statement or block head that is
\* well formed by itself
PlainLines ==
    \A i \in 1..Len(lines) :
        \/ IsEndLine(lines[i])
        \/ Normal(lines[i]) \in {"", "if x then", "while x do", "function f as",
                                 "let x = 1"}

\* C21: an open `if`, `while` or `function` block is closed only by a line
\* that is exactly `end <keyword>` for the innermost open block; any other
\* `end` line (wrong keyword, a field missing or too many, any `end` at top
\* level) is MalformedEnd at that line; the end of the input with a block
\* open is UnclosedBlock; the top-level parse ends successfully at the end
\* of the input.
C21_BlockMatching ==
    (Parsed /\ PlainLines) =>
        /\ last.err = BlockScan(1, <<>>)
        /\ last.outcome = "parsed" <=> BlockScan(1, <<>>) = NoError
        /\ last.outcome = "parsed" => ptr = Len(lines)

\* a block inside a block, each closed by its own end, has been parsed
C21_Witness ==
    /\ Parsed
    /\ lines = <<"if x then", "while x do", "end while", "end if">>
    /\ last.outcome = "parsed"
    /\ Len(main_stmts) = 1
    /\ main_stmts[1].kind = "Cond"
    /\ Len(main_stmts[1].child) = 1

InSession == pc = "session"

\* the last input of the session was the last line of a definition of
\* function name that execute_block refused as a duplicate
RefusedDefinition(name) ==
    /\ InSession
    /\ last.outcome = "error"
    /\ last.err.kind = "DuplicateToken"
    /\ last.err.value = name
    /\ Len(pending) > 1
    /\ pending[1] = "function " \o name \o " as"

\* C22: across any sequence of REPL inputs, those that end in an error
\* included, the function registry only grows: an entry once inserted is
\* never removed and never replaced (a second definition of the name is
\* DuplicateToken and leaves the first in place), and no registered name
\* is a reserved word.
C22_RegistryGrows ==
    [][ /\ \A f \in DOMAIN prog.funcs :
              f \in DOMAIN prog'.funcs /\ prog'.funcs[f] = prog.funcs[f]
        /\ \A f \in DOMAIN prog'.funcs :
              f \notin {"let", "if", "then", "while", "do", "function", "as",
                        "return", "end", "print", "and", "or", "xor", "not",
                        "scan"} ]_vars

\* g was defined, and a second definition of g has been refused; the
\* registry holds the first
C22_Witness ==
    /\ RefusedDefinition("g")
    /\ "g" \in DOMAIN prog.funcs
    /\ prog.funcs["g"].line < last.err.line
    /\ prog = txn.prog

\* the step printed the blurb of `copyright` or of `license`
Blurb(written) ==
    \E i \in 1..Len(written) : written[i].kind \in {"copyright", "license"}

\* C23: a REPL input that is exactly `copyright` or `license` after
\* trimming is intercepted in READY and in BUFFERING mode: it is not
\* appended to lines nor handed to execute_block as a line of an input,
\* and leaves ptr, last_ptr, the registry, the statement buffer, the
\* scope, exec_ptr and the prompt mode unchanged, so an open block stays
\* open across it.
C23_Intercepted ==
    [][ /\ \A i \in 1..Len(lines') : lines'[i] \notin {"copyright", "license"}
        /\ \A i \in 1..Len(pending') : pending'[i] \notin {"copyright", "license"}
        /\ (pc = "repl" /\ Blurb(out'))
              => /\ UNCHANGED <<lines, ptr, last_ptr, prog, main_stmts, scope,
                                exec_ptr, in_block, pending>>
                 /\ pc' = "repl"
                 /\ Len(out') = 2
                 /\ out'[1] = [kind |-> "prompt",
                               text |-> IF in_block THEN "... " ELSE ">>> "] ]_vars

\* the blurb has been printed while a block was open, and the block is
\* still open
C23_Witness ==
    /\ InRepl
    /\ in_block
    /\ Blurb(out)
    /\ pending = <<"if 1 then">>
    /\ lines[Len(lines)] = "if 1 then"

\* XAfter(i, x, depth): the value of x after the lines of the line log
\* from line i up to last_ptr, the lines absorbed, have been executed once
\* each, in order; x is <<>> while x is not assigned and <<n>> when its
\* value is n; depth counts the blocks open inside the body of a function,
\* the function's included: such a line is not executed
RECURSIVE XAfter(_, _, _)
XAfter(i, x, depth) ==
    IF i > last_ptr THEN x
    ELSE IF depth > 0
    THEN XAfter(i + 1, x,
                IF lines[i] \in {"function g as", "if 1 then"} THEN depth + 1
                ELSE IF lines[i] \in {"end function", "end if"} THEN depth - 1
                ELSE depth)
    ELSE IF lines[i] = "function g as" THEN XAfter(i + 1, x, 1)
    ELSE IF lines[i] = "let x = 1" THEN XAfter(i + 1, <<1>>, 0)
    ELSE IF lines[i] = "let x = + x 1" /\ x # <<>>
    THEN XAfter(i + 1, <<x[1] + 1>>, 0)
    ELSE XAfter(i + 1, x, 0)

\* C24: at every prompt of the REPL the statement buffer holds no
\* statement that was not executed, len(main_stmts) = exec_ptr; each
\* absorbed top-level statement has been executed exactly once, and an
\* input executes the statements it adds and no statement absorbed before:
\* an increment of x reads the value the input before it left and produces
\* no other.
C24_NothingUnexecuted ==
    InRepl =>
        /\ Len(main_stmts) = exec_ptr
        /\ "x" \in DOMAIN scope <=> XAfter(1, <<>>, 0) # <<>>
        /\ "x" \in DOMAIN scope => scope["x"] = IntOf(XAfter(1, <<>>, 0)[1])
        /\ (last.outcome = "absorbed" /\ pending = <<"let x = + x 1">>)
              => produced = {IntOf(XAfter(1, <<>>, 0)[1] - 1), IntOf(1),
                              scope["x"]}
        /\ (last.outcome = "absorbed" /\ pending = <<"let x = 1">>)
              => produced = {IntOf(1)}

\* x was assigned and incremented three times by four inputs; the fourth
\* input read the 3 the third had left and executed its own statement only
C24_Witness ==
    /\ InRepl
    /\ last.outcome = "absorbed"
    /\ absorbed = <<"let x = 1", "let x = + x 1", "let x = + x 1",
                    "let x = + x 1">>
    /\ exec_ptr = 4
    /\ scope["x"] = IntOf(4)
    /\ produced = {IntOf(1), IntOf(3), IntOf(4)}

\* C25: in every reachable state no name bound in a scope, the scope of a
\* call frame or the top-level scope of the REPL, is a reserved word or
\* the name of a registered function, also when the function is defined
\* after a variable of its name was assigned at top level.
C25_NoShadowing ==
    /\ \A name \in DOMAIN scope :
          ~is_reserved_kw(name) /\ name \notin DOMAIN prog.funcs
    /\ \A fr \in called : \A name \in DOMAIN fr.scope :
          ~is_reserved_kw(name) /\ name \notin DOMAIN prog.funcs

\* q and r satisfy the division identity for a and b
DivisionIdentity(a, b, q, r) ==
    /\ IntCmp(r, IntZero) >= 0
    /\ IntCmp(r, IntAbs(b)) < 0
    /\ a = IntAdd(IntMul(q, IntAbs(b)), r)

\* C26: for all Variables a and b # 0, the results q of `/ a b` and r of
\* `% a b` satisfy 0 <= r < |b| and a = q * |b| + r, also when a <= 0 and
\* when |b| is 2^48 or more.
C26_DivisionIdentity ==
    (QuotDone /\ scope["b"] # IntZero) =>
        \A rem \in {Call("Variable_rem", <<scope["a"], scope["b"]>>)} :
            DivisionIdentity(scope["a"], scope["b"], scope["q"], rem.val)

\* the lines the session can bring, as execute_block gets them
SessionLines == {Trim(i.text) : i \in SessionInputs}

\* C27: at every prompt of the REPL ptr = last_ptr and last_ptr <=
\* len(lines), so the cursor does not point past the line log when a parse
\* starts and the loop that decrements ptr while ptr > len(lines) does
\* nothing; within a parse the cursor only grows, by one for every line
\* consumed: it ends behind the last line when the parse succeeds or the
\* block is unclosed, and behind the line of the error otherwise.
C27_CursorInvariant ==
    InSession =>
        /\ ptr = last_ptr
        /\ last_ptr <= Len(lines)
        /\ ~(ptr > 0 /\ ptr > Len(lines))
        /\ \A inp \in SessionLines :
              \A node \in {Call("parse_node", <<Append(lines, inp), ptr, "">>)} :
                  /\ node.ptr >= ptr
                  /\ node.ptr <= Len(lines) + 1
                  /\ (node.ok \/ node.err = UnclosedBlock) => node.ptr = Len(lines) + 1
                  /\ (~node.ok /\ node.err.kind = "MalformedEnd")
                        => node.ptr = node.err.line + 1

\* an input has failed behind absorbed lines: the cursor is back at
\* last_ptr, below the end of the line log, which keeps a line of the input
C27_Witness ==
    /\ InSession
    /\ last.outcome = "error"
    /\ last_ptr > 0
    /\ ptr = last_ptr
    /\ Len(lines) = last_ptr + 1

=============================================================================
